---- MODULE Spec2Model ----
(***************************************************************************)
(* Product catalog service: ProductService orchestrating MongoRepository   *)
(* (source of truth), RedisRepository (cache-aside, TTL) and               *)
(* ElasticRepository (derived search index).                               *)
(*                                                                         *)
(* Every service coroutine is a process whose position (pc) advances one   *)
(* awaited adapter call at a time, so calls of different requests          *)
(* interleave exactly at the awaits of the source.  Each adapter call      *)
(* either succeeds or raises the adapter's domain error.                   *)
(***************************************************************************)
EXTENDS Integers, Sequences, FiniteSets, TLC

(* ------------------------------ bounds -------------------------------- *)

\* Number of products the primary store ever assigns an identifier to.
MaxItems == 2
\* Budget of service calls in one behaviour: a call costs two units, and one
\* more for every call in flight when it starts.
MaxBudget == 5
\* Number of clock advances in one behaviour.
MaxTicks == 1
\* A clock advance lasts one or two TickSeconds, two thirds of the TTL each.
TickLens == {1, 2}

(* ------------------------- program constants -------------------------- *)

\* RedisRepository.__init__(ttl=300)
DefaultTTL == 300
\* ProductService.reindex_all: list_all(limit=10000)
ReindexLimit == 10000
\* ProductService.search(query, size=10)
SearchSize == 10
\* ElasticRepository.search_by_category / search_by_price_range (size=100)
DefaultSize == 100

\* Request coroutines that can be in flight together.
Procs == {1, 2}

TickSeconds == (2 * DefaultTTL) \div 3
Ids == 1..MaxItems

\* Python None held by a str-typed attribute.
NULL == "<None>"

\* ContextVar("request_context", default=None): Optional[dict] as a sequence,
\* << >> for None and << d >> for the dict d.
NoContext == << >>

\* The local `product` of a coroutine before it is bound.
NoProduct == [id |-> 0]

(* --------------------------- value domains ---------------------------- *)

\* Create payloads as received (validated: name/category non-empty, price > 0
\* in cents with two decimal places, stock >= 0); is_active is left unset.
CreatePayloads ==
  { [name |-> "Gadget", description |-> "d", price |-> 2499, stock |-> 3,
     category |-> "tools"] }

\* ProductUpdate payloads as data.model_dump(exclude_unset=True): the domain
\* is model_fields_set.  Every field is Optional, so an explicit None passes
\* ProductUpdate validation.
UpdatePayloads ==
  { << >>,
    [stock |-> 7],
    [price |-> 2499],
    [name |-> NULL] }

(* ------------------------------ state --------------------------------- *)

VARIABLES
  mongo,     \* products collection: ObjectId -> stored Product document
  cache,     \* redis keyspace: key -> [val: serialized snapshot, exp: expiry time]
  search,    \* elasticsearch index: doc id -> document
  now,       \* wall clock, seconds
  ticks,     \* clock advances so far
  nextId,    \* next ObjectId the primary store assigns
  opsLeft,   \* budget of service calls still to be started
  pc,        \* position of each request coroutine
  args,      \* the call each coroutine is executing
  local,     \* coroutine locals: product, documents, cursor, keys; found_at is
             \* the time at which update's get_by_id returned
  ret,       \* outcome of the call: pending / ok value / raised error
  calls,     \* adapter calls made by the current call, in order (test-double log)
  lastDone,  \* history: the get_by_id or create that returned a product, if it was the last call to return
  deleted,   \* history: ids whose delete() returned normally -> cache step ok?
  bulk,      \* further products of the collection, older than all others, that
             \* no request addresses by id: how many there are
  indexedMore, \* how many of these further products have a document in the index
  indexExists, \* whether the search server has the products index
  request_context \* ContextVar "request_context": its value in the context of
             \* each request's task

vars == << mongo, cache, search, now, ticks, nextId, opsLeft, bulk, indexExists, request_context, indexedMore,
           pc, args,
           local, ret, calls, lastDone, deleted >>

(* ----------------------- models/product.py ---------------------------- *)

\* str(x) of an ObjectId, Decimal or datetime, kept apart from the value itself.
Str(kind, v) == << kind, v >>

\* Product.serialize_id
serialize_id(v) == Str("oid", v)

\* Product.convert_decimal128 (mode="before"): a str is parsed by Decimal(str(v)).
convert_decimal128(v) == v[2]

\* Field constraints of Product, enforced whenever a Product is validated.
ValidProduct(d) ==
  /\ d.name # NULL /\ d.name # ""
  /\ d.category # NULL /\ d.category # ""
  /\ d.price > 0
  /\ d.stock >= 0

\* product.model_dump(): id through serialize_id, the rest as Python values.
model_dump(p) ==
  [id |-> serialize_id(p.id), name |-> p.name, description |-> p.description,
   price |-> p.price, stock |-> p.stock, category |-> p.category,
   is_active |-> p.is_active, created_at |-> p.created_at,
   updated_at |-> p.updated_at]

\* json.dumps(value, default=str): Decimal and datetime go through str().
json_dumps(d) ==
  [d EXCEPT !.price = Str("decimal", d.price),
            !.created_at = Str("datetime", d.created_at),
            !.updated_at = Str("datetime", d.updated_at)]

\* ProductCreate(**payload).model_dump(): every field, the unset ones with
\* their defaults (description None, stock 0, is_active True).
ProductCreate(raw) ==
  [name |-> raw.name,
   description |-> IF "description" \in DOMAIN raw THEN raw.description ELSE NULL,
   price |-> raw.price,
   stock |-> IF "stock" \in DOMAIN raw THEN raw.stock ELSE 0,
   category |-> raw.category,
   is_active |-> IF "is_active" \in DOMAIN raw THEN raw.is_active ELSE TRUE]

\* Mutant of ProductFromCached: stock is not read back and takes its default.
ProductFromCached_DefaultStock(c) ==
  [id |-> c.id[2], name |-> c.name, description |-> c.description,
   price |-> c.price[2], stock |-> 0,
   category |-> c.category, is_active |-> c.is_active,
   created_at |-> c.created_at[2], updated_at |-> c.updated_at[2]]

\* Product(**cached): pydantic parses id, price and the timestamps from str.
ProductFromCached(c) ==
  [id |-> c.id[2], name |-> c.name, description |-> c.description,
   price |-> convert_decimal128(c.price), stock |-> c.stock,
   category |-> c.category, is_active |-> c.is_active,
   created_at |-> c.created_at[2], updated_at |-> c.updated_at[2]]

\* Mutant of NewProduct: stock is not passed on and takes the default of Product.
NewProduct_DefaultStock(id, data, t) ==
  [id |-> id, name |-> data.name, description |-> data.description,
   price |-> data.price, stock |-> 0, category |-> data.category,
   is_active |-> data.is_active, created_at |-> t, updated_at |-> t]

\* Product(**data.model_dump()) with the default_factory timestamps.
NewProduct(id, data, t) ==
  [id |-> id, name |-> data.name, description |-> data.description,
   price |-> data.price, stock |-> data.stock, category |-> data.category,
   is_active |-> data.is_active, created_at |-> t, updated_at |-> t]

\* Mutant of ApplyUpdate: a field the payload leaves unset takes its schema
\* default (stock 0) instead of keeping its value.
ApplyUpdate_UnsetStockDefaults(p, u, t) ==
  [p EXCEPT !.name = IF "name" \in DOMAIN u THEN u.name ELSE @,
            !.price = IF "price" \in DOMAIN u THEN u.price ELSE @,
            !.stock = IF "stock" \in DOMAIN u THEN u.stock ELSE 0,
            !.updated_at = t]

\* setattr(product, field, value) for every item of update_data, with
\* update_data["updated_at"] = datetime.now(UTC) added first.  Plain attribute
\* assignment: the Document does not validate on assignment.
ApplyUpdate(p, u, t) ==
  [p EXCEPT !.name = IF "name" \in DOMAIN u THEN u.name ELSE @,
            !.description = IF "description" \in DOMAIN u THEN u.description ELSE @,
            !.price = IF "price" \in DOMAIN u THEN u.price ELSE @,
            !.stock = IF "stock" \in DOMAIN u THEN u.stock ELSE @,
            !.category = IF "category" \in DOMAIN u THEN u.category ELSE @,
            !.is_active = IF "is_active" \in DOMAIN u THEN u.is_active ELSE @,
            !.updated_at = t]

(* --------------------------- store helpers ---------------------------- *)

Put(f, k, v) == [x \in (DOMAIN f) \cup {k} |-> IF x = k THEN v ELSE f[x]]

Drop(f, ks) == [x \in (DOMAIN f) \ ks |-> f[x]]

\* str.lower() on the category strings in use.
Lower(s) == CASE s = "Tools" -> "tools"
              [] s = "TOOLS" -> "tools"
              [] s = "Widget" -> "widget"
              [] s = "Gadget" -> "gadget"
              [] OTHER -> s

(* ------------------ repositories/mongo_repository.py ------------------ *)

\* Mutant of MongoGetById: without `except NotFoundError: raise` the
\* NotFoundError is caught by `except Exception` and re-raised as DatabaseError.
MongoGetById_WrapsNotFound(id) ==
  IF id \notin DOMAIN mongo
  THEN [err |-> "DatabaseError", wraps |-> "NotFoundError", product |-> NoProduct]
  ELSE IF ~ValidProduct(mongo[id])
  THEN [err |-> "DatabaseError", wraps |-> "ValidationError", product |-> NoProduct]
  ELSE [err |-> "", wraps |-> "", product |-> mongo[id]]

\* MongoRepository.get_by_id once the client has answered: NotFoundError when
\* Product.get returns None, DatabaseError when the stored document does not
\* validate as a Product, else the product.
\* (wraps: the exception the raised error was made from.)
MongoGetById(id) ==
  IF id \notin DOMAIN mongo
  THEN [err |-> "NotFoundError", wraps |-> "", product |-> NoProduct]
  ELSE IF ~ValidProduct(mongo[id])
  THEN [err |-> "DatabaseError", wraps |-> "ValidationError", product |-> NoProduct]
  ELSE [err |-> "", wraps |-> "", product |-> mongo[id]]

\* Mutant of MongoUpdateData: updated_at is stamped even for an empty update_data.
MongoUpdateData_AlwaysStamps(product, data, t) == ApplyUpdate(product, data, t)

\* MongoRepository.update after get_by_id: the product as modified in memory.
\* An empty update_data skips both the updated_at stamp and the save.
MongoUpdateData(product, data, t) ==
  IF DOMAIN data # {} THEN ApplyUpdate(product, data, t) ELSE product

\* MongoRepository.update: whether product.save() is awaited at all.
MongoUpdateSaves(data) == DOMAIN data # {}

RECURSIVE SortNewestFirst(_)
\* .sort("-created_at") over a set of ids; equal timestamps keep insertion order.
SortNewestFirst(S) ==
  IF S = {} THEN << >>
  ELSE LET m == CHOOSE x \in S : \A y \in S :
                   \/ mongo[x].created_at > mongo[y].created_at
                   \/ (mongo[x].created_at = mongo[y].created_at /\ x <= y)
       IN << m >> \o SortNewestFirst(S \ {m})

\* MongoRepository.list_all(skip=0, limit, category=None, is_active=None):
\* the products addressed by id, newest first, cut at limit.
MongoListAll(limit) ==
  LET all == SortNewestFirst(DOMAIN mongo)
  IN IF Len(all) <= limit THEN all ELSE SubSeq(all, 1, limit)

\* Mutant of MongoListAllMore: the limit argument is dropped and list_all
\* applies its default, limit=100.
MongoListAllMore_DefaultLimit(limit) ==
  LET room == 100 - Len(MongoListAll(100))
  IN IF bulk <= room THEN bulk ELSE room

\* .limit(limit): how many of the further, older products follow in the list.
MongoListAllMore(limit) ==
  LET room == limit - Len(MongoListAll(limit))
  IN IF bulk <= room THEN bulk ELSE room

\* Optional[bool] as a sequence: << >> is None, << b >> is the value b.
NoFlag == << >>

\* MongoRepository.list_all, the query: `if category:` puts category into it
\* (None and "" do not), `if is_active is not None:` puts is_active into it;
\* Product.find(query) matches the products equal on every key of the query.
MongoListQuery(category, is_active) ==
  { id \in DOMAIN mongo :
      /\ category \notin {NULL, ""} => mongo[id].category = category
      /\ is_active # NoFlag => mongo[id].is_active = is_active[1] }

\* Mutant of MongoListPage: .skip(skip) is left out.
MongoListPage_NoSkip(ids, skip, limit) ==
  LET all == SortNewestFirst(ids)
      last == IF Len(all) <= limit THEN Len(all) ELSE limit
  IN SubSeq(all, 1, last)

\* .sort("-created_at").skip(skip).limit(limit).to_list()
MongoListPage(ids, skip, limit) ==
  LET all == SortNewestFirst(ids)
      last == IF Len(all) <= skip + limit THEN Len(all) ELSE skip + limit
  IN SubSeq(all, skip + 1, last)

(* ------------------ repositories/redis_repository.py ------------------ *)

\* ProductService._cache_key
_cache_key(product_id) == << "product", product_id >>

\* Mutant of MatchesPattern: the pattern is "*".
MatchesPattern_Everything(k) == TRUE

\* Keys the redis glob "product:*" matches.
MatchesPattern(k) == k[1] = "product"

\* Keys alive at the current time (redis never returns an expired key).
LiveKeys == { k \in DOMAIN cache : cache[k].exp > now }

\* RedisRepository.get: the parsed value, or None for an absent key.
RedisGet(key) ==
  IF key \in LiveKeys THEN [hit |-> TRUE, value |-> cache[key].val]
  ELSE [hit |-> FALSE, value |-> NoProduct]

\* Mutant of RedisSet: the value is stored without `ex`, so it never expires
\* within the time the model covers.
RedisSet_NoExpiry(key, value, ttl) ==
  Put(cache, key, [val |-> json_dumps(value), exp |-> now + 1000 * DefaultTTL])

\* Optional[int] as a sequence: << >> is None (ttl omitted), << n >> is n.
NoTTL == << >>

\* RedisRepository.set: ex = ttl or self._ttl (None and 0 are both falsy).
SetExpiry(ttl) == IF ttl # NoTTL /\ ttl[1] # 0 THEN ttl[1] ELSE DefaultTTL

\* SET key value EX seconds: the server takes a positive expire time only.
AcceptsExpiry(ex) == ex > 0

\* RedisRepository.set, once the server has taken the command.
RedisSet(key, value, ttl) ==
  Put(cache, key, [val |-> json_dumps(value), exp |-> now + SetExpiry(ttl)])

\* Mutant of RedisDelete: the key is left in place.
RedisDelete_KeepsKey(key) == cache

\* RedisRepository.delete
RedisDelete(key) == Drop(cache, {key})

(* ----------------- repositories/elastic_repository.py ----------------- *)

\* ElasticRepository.index_document: upsert under doc_id.
IndexDocument(idx, doc_id, document) == Put(idx, doc_id, document)

\* ElasticRepository.delete_document: the client raises for a missing document.
DeleteDocumentOk(doc_id) == doc_id \in DOMAIN search

RECURSIVE BulkApply(_, _)
\* ElasticRepository.bulk_index: one index operation per document, keyed by doc["id"].
BulkApply(idx, docs) ==
  IF docs = << >> THEN idx
  ELSE BulkApply(IndexDocument(idx, Head(docs).id, Head(docs)), Tail(docs))

\* ElasticRepository.bulk_index over the further products: the first `more` of
\* them are upserted, the ones indexed before stay.
BulkApplyMore(more) == IF more > indexedMore THEN more ELSE indexedMore

\* Mutant of BulkIndexCallsClient: no early return on empty input.
BulkIndexCallsClient_Always(docs, more) == TRUE

\* ElasticRepository.bulk_index returns before touching the client on empty input.
BulkIndexCallsClient(docs, more) == docs # << >> \/ more > 0

\* multi_match with fuzziness AUTO over analysed text, on the strings in use.
FuzzyEq(a, b) ==
  \/ Lower(a) = Lower(b)
  \/ {Lower(a), Lower(b)} = {"widget", "gadget"}

\* ElasticRepository.search
SearchText(q) ==
  { d \in { search[k] : k \in DOMAIN search } :
      FuzzyEq(q, d.name) \/ FuzzyEq(q, d.description) \/ FuzzyEq(q, d.category) }

\* Mutant of SearchByCategory: the query term is sent as given.
SearchByCategory_TermAsGiven(category) ==
  { d \in { search[k] : k \in DOMAIN search } : Lower(d.category) = category }

\* ElasticRepository.search_by_category: term query on category.lower() against
\* the lowercase-normalised keyword.
SearchByCategory(category) ==
  { d \in { search[k] : k \in DOMAIN search } : Lower(d.category) = Lower(category) }

\* ElasticRepository.search_by_price_range: gte / lte bounds.
SearchByPriceRange(min_price, max_price) ==
  { d \in { search[k] : k \in DOMAIN search } :
      min_price <= d.price /\ d.price <= max_price }

\* The "size" each query is sent with.
QuerySize(op) == IF op = "search" THEN SearchSize ELSE DefaultSize

\* The indexed documents of products addressed by id that the query matches.
QueryMatches(op, data) ==
  CASE op = "search" -> SearchText(data)
    [] op = "search_by_category" -> SearchByCategory(data)
    [] OTHER -> SearchByPriceRange(data[1], data[2])

\* The fields a query looks at, as every further product has them.
FurtherDocument ==
  [name |-> "Widget", description |-> NULL, price |-> 1999, category |-> "Tools"]

\* How many indexed documents of the further products the query matches.
QueryMatchesMore(op, data) ==
  LET d == FurtherDocument
      m == CASE op = "search" ->
                  FuzzyEq(data, d.name) \/ FuzzyEq(data, d.description)
                    \/ FuzzyEq(data, d.category)
             [] op = "search_by_category" -> Lower(d.category) = Lower(data)
             [] OTHER -> data[1] <= d.price /\ d.price <= data[2]
  IN IF m THEN indexedMore ELSE 0

\* response["hits"]["hits"] for a query with "size": all matching documents
\* when there are at most size of them, else size of them, whichever the
\* index returns first.
SearchResponses(matching, more, size) ==
  LET total == Cardinality(matching) + more
      k == IF total <= size THEN total ELSE size
  IN { [hits |-> h, n |-> k - Cardinality(h)] :
         h \in { x \in SUBSET matching :
                   k - Cardinality(x) >= 0 /\ k - Cardinality(x) <= more } }

(* --------------------------- call records ----------------------------- *)

Pending == [status |-> "pending", err |-> "", value |-> NoProduct, n |-> 0, hits |-> {}]

Ok(v) == [status |-> "ok", err |-> "", value |-> v, n |-> 0, hits |-> {}]

OkCount(n) == [status |-> "ok", err |-> "", value |-> NoProduct, n |-> n, hits |-> {}]

\* A list of hits: the documents of products addressed by id, and n others.
OkHits(h, n) == [status |-> "ok", err |-> "", value |-> NoProduct, n |-> n, hits |-> h]

Raised(e) == [status |-> "raised", err |-> e, value |-> NoProduct, n |-> 0, hits |-> {}]

NoLocals ==
  [product |-> NoProduct, found_at |-> 0, documents |-> << >>, more |-> 0,
   cursor |-> 0, keys |-> {}, raced |-> {}, token |-> NoContext,
   request_id |-> ""]

NoCall == [op |-> "none", id |-> 0, data |-> << >>]

NoHistory ==
  [op |-> "none", id |-> 0, data |-> << >>, value |-> NoProduct, cacheOk |-> TRUE,
   exp |-> 0]

\* One completed adapter call: raised is "" when it returned normally, wraps is
\* the exception the raised error was made from (`raise ... from e`), client is
\* the number of requests the adapter made to its underlying client.
CallWrapping(repo, method, raised, wraps) ==
  [repo |-> repo, method |-> method, raised |-> raised, wraps |-> wraps,
   client |-> 1]

\* An adapter without its `except Exception` clause: the exception of the
\* client reaches the caller as it is.
Call_RawClientError(repo, method, raised) ==
  CallWrapping(repo, method,
               IF raised \in {"", "NotFoundError"} THEN raised ELSE "ClientError",
               "")

\* A call that returned, raised NotFoundError itself, or wrapped an exception
\* of its client.
Call(repo, method, raised) ==
  CallWrapping(repo, method, raised,
               IF raised \in {"", "NotFoundError"} THEN "" ELSE "ClientError")

\* An adapter call that returned without a request to its client.
CallNoClient(repo, method) ==
  [repo |-> repo, method |-> method, raised |-> "", wraps |-> "", client |-> 0]

LogWrapping(p, repo, method, raised, wraps) ==
  calls' = [calls EXCEPT ![p] = Append(@, CallWrapping(repo, method, raised, wraps))]

Log(p, repo, method, raised) ==
  calls' = [calls EXCEPT ![p] = Append(@, Call(repo, method, raised))]

Goto(p, label) == pc' = [pc EXCEPT ![p] = label]

Finish(p, r) == pc' = [pc EXCEPT ![p] = "done"] /\ ret' = [ret EXCEPT ![p] = r]

\* try/except CacheError: pass; contextlib.suppress(CacheError)
CacheOutcomes == {"", "CacheError"}

\* contextlib.suppress(SearchError)
SearchOutcomes == {"", "SearchError"}

\* The product a create() that ran to completion at time 0 leaves behind.
SeedProduct ==
  NewProduct(1, [name |-> "Widget", description |-> NULL, price |-> 1999,
                 stock |-> 5, category |-> "Tools", is_active |-> TRUE], 0)

\* The cache entry a get_by_id(1) that missed at time 0 leaves behind.
SeedEntry ==
  [val |-> json_dumps(model_dump(SeedProduct)), exp |-> DefaultTTL]

\* A key outside "product:*": a counter kept through RedisRepository.increment,
\* which sets no expiry.
CounterKey == << "counter", 1 >>

CounterEntry == [val |-> 1, exp |-> 1000 * DefaultTTL]

\* Nothing has happened yet; or one create() has completed (document stored
\* and indexed, cache untouched); or a get_by_id() of that product has
\* completed as well (snapshot cached at time 0) and the cache holds a counter.
InitStores ==
  /\ \/ /\ mongo = << >>
        /\ search = << >>
        /\ cache = << >>
        /\ nextId = 1
        /\ lastDone = NoHistory
     \/ /\ mongo = Put(<< >>, 1, SeedProduct)
        /\ search = IndexDocument(<< >>, Str("oid", 1), model_dump(SeedProduct))
        /\ nextId = 2
        /\ \/ /\ cache = << >>
              /\ lastDone = NoHistory
           \/ /\ cache = Put(Put(<< >>, _cache_key(1), SeedEntry),
                            CounterKey, CounterEntry)
              /\ lastDone = [op |-> "get_by_id", id |-> 1, data |-> << >>,
                             value |-> SeedProduct, cacheOk |-> TRUE,
                             exp |-> DefaultTTL]
  /\ now = 0
  /\ ticks = 0
  /\ opsLeft = MaxBudget
  /\ pc = [p \in Procs |-> "idle"]
  /\ args = [p \in Procs |-> NoCall]
  /\ local = [p \in Procs |-> NoLocals]
  /\ ret = [p \in Procs |-> Pending]
  /\ calls = [p \in Procs |-> << >>]
  /\ deleted = << >>
  /\ indexExists = TRUE
  /\ request_context = [p \in Procs |-> NoContext]

\* The collection holds the products of InitStores only.
Init == InitStores /\ bulk = 0 /\ indexedMore = 0

\* The collection may also hold ReindexLimit further products.
BulkInit == InitStores /\ bulk \in {0, ReindexLimit} /\ indexedMore = 0

InFlight == { q \in Procs : pc[q] # "idle" }

\* A request enters a service method, on the first free coroutine.
Begin(p, call, label) ==
  /\ pc[p] = "idle"
  /\ \A q \in Procs : q < p => pc[q] # "idle"
  /\ opsLeft >= 2 + Cardinality(InFlight)
  /\ opsLeft' = opsLeft - (2 + Cardinality(InFlight))
  /\ Goto(p, label)
  /\ args' = [args EXCEPT ![p] = call]
  /\ local' = [local EXCEPT ![p] = NoLocals]
  /\ ret' = [ret EXCEPT ![p] = Pending]
  /\ calls' = [calls EXCEPT ![p] = << >>]
  /\ UNCHANGED << mongo, cache, search, now, ticks, nextId, bulk, indexExists, request_context, indexedMore, lastDone, deleted >>

(* ----------------------- ProductService.create ------------------------ *)

StartCreate(p) ==
  /\ nextId + Cardinality({q \in Procs : pc[q] = "create_insert"}) <= MaxItems
  /\ \E data \in CreatePayloads :
       Begin(p, [op |-> "create", id |-> 0, data |-> data], "create_insert")

\* MongoRepository.create: Product(**data.model_dump()); await product.insert()
CreateInsert(p) ==
  /\ pc[p] = "create_insert"
  /\ \/ /\ Log(p, "mongo", "create", "DatabaseError")
        /\ Finish(p, Raised("DatabaseError"))
        /\ UNCHANGED << mongo, nextId, local >>
     \/ LET product == NewProduct(nextId, ProductCreate(args[p].data), now) IN
        /\ mongo' = Put(mongo, nextId, product)
        /\ nextId' = nextId + 1
        /\ local' = [local EXCEPT ![p].product = product]
        /\ Log(p, "mongo", "create", "")
        /\ Goto(p, "create_index")
        /\ UNCHANGED ret
  /\ UNCHANGED << cache, search, now, ticks, opsLeft, bulk, indexExists, request_context, indexedMore, args, lastDone, deleted >>

\* Mutant of CreateIndex: the new product is written through to the cache.
CreateIndex_WritesThrough(p) ==
  /\ pc[p] = "create_index"
  /\ \E out \in SearchOutcomes :
       /\ search' = IF out = ""
                    THEN IndexDocument(search, Str("oid", local[p].product.id),
                                       model_dump(local[p].product))
                    ELSE search
       /\ cache' = RedisSet(_cache_key(local[p].product.id),
                            model_dump(local[p].product), NoTTL)
       /\ Log(p, "search", "index_document", out)
       /\ Finish(p, Ok(local[p].product))
  /\ UNCHANGED << mongo, now, ticks, nextId, opsLeft, bulk, indexExists, request_context, indexedMore, args, local,
                  lastDone, deleted >>

\* Mutant of CreateReturn: the SearchError is not suppressed.
CreateReturn_Propagates(p, out) ==
  Finish(p, IF out = "" THEN Ok(local[p].product) ELSE Raised(out))

\* create: with contextlib.suppress(SearchError) around index_document, then
\* return product, whatever the outcome of the indexing.
CreateReturn(p, out) == Finish(p, Ok(local[p].product))

\* with suppress(SearchError): await self._search.index_document(...); return product
CreateIndex(p) ==
  /\ pc[p] = "create_index"
  /\ \E out \in SearchOutcomes :
       /\ search' = IF out = ""
                    THEN IndexDocument(search, Str("oid", local[p].product.id),
                                       model_dump(local[p].product))
                    ELSE search
       /\ Log(p, "search", "index_document", out)
       /\ CreateReturn(p, out)
  /\ UNCHANGED << mongo, cache, now, ticks, nextId, opsLeft, bulk, indexExists, request_context, indexedMore, args, local,
                  lastDone, deleted >>

(* ---------------------- ProductService.get_by_id ---------------------- *)

StartGet(p) ==
  /\ pc[p] = "idle"
  /\ \E id \in Ids :
       Begin(p, [op |-> "get_by_id", id |-> id, data |-> << >>], "get_cache")

\* Mutant of OnCacheGetError: the CacheError is not caught.
OnCacheGetError_Propagates(p) == Finish(p, Raised("CacheError"))

\* Mutant of OnCacheGetError: the cache read is tried a second time before the
\* read falls through to the primary store.
OnCacheGetError_RetriesOnce(p) ==
  /\ IF \E i \in DOMAIN calls[p] : calls[p][i].method = "get"
     THEN Goto(p, "get_mongo")
     ELSE Goto(p, "get_cache")
  /\ UNCHANGED ret

\* get_by_id: except CacheError: pass -- the read falls through to the primary store.
OnCacheGetError(p) == Goto(p, "get_mongo") /\ UNCHANGED ret

\* Mutant of GetCache: a hit renews the entry's expiry.
GetCache_RefreshesOnHit(p) ==
  /\ pc[p] = "get_cache"
  /\ \/ /\ Log(p, "cache", "get", "CacheError")
        /\ OnCacheGetError(p)
        /\ UNCHANGED cache
     \/ LET key == _cache_key(args[p].id)
            r == RedisGet(key) IN
        /\ Log(p, "cache", "get", "")
        /\ IF r.hit
           THEN /\ Finish(p, IF ValidProduct(ProductFromCached(r.value))
                             THEN Ok(ProductFromCached(r.value))
                             ELSE Raised("ValidationError"))
                /\ cache' = [cache EXCEPT ![key].exp = now + DefaultTTL]
           ELSE Goto(p, "get_mongo") /\ UNCHANGED << ret, cache >>
  /\ UNCHANGED << mongo, search, now, ticks, nextId, opsLeft, bulk, indexExists, request_context, indexedMore, args,
                  local, lastDone, deleted >>

\* cached = await self._cache.get(cache_key); if cached: return Product(**cached)
GetCache(p) ==
  /\ pc[p] = "get_cache"
  /\ \/ /\ Log(p, "cache", "get", "CacheError")
        /\ OnCacheGetError(p)
     \/ LET r == RedisGet(_cache_key(args[p].id)) IN
        /\ Log(p, "cache", "get", "")
        /\ IF r.hit
           THEN Finish(p, IF ValidProduct(ProductFromCached(r.value))
                          THEN Ok(ProductFromCached(r.value))
                          ELSE Raised("ValidationError"))
           ELSE Goto(p, "get_mongo") /\ UNCHANGED ret
  /\ UNCHANGED << mongo, cache, search, now, ticks, nextId, opsLeft, bulk, indexExists, request_context, indexedMore, args, local,
                  lastDone, deleted >>

\* Mutant of GetMongo: a NotFoundError leaves a placeholder document under the
\* key, which later reads take for a hit.
GetMongo_CachesAbsence(p) ==
  /\ pc[p] = "get_mongo"
  /\ \/ /\ Log(p, "mongo", "get_by_id", "DatabaseError")
        /\ Finish(p, Raised("DatabaseError"))
        /\ UNCHANGED << local, cache >>
     \/ LET r == MongoGetById(args[p].id) IN
        /\ LogWrapping(p, "mongo", "get_by_id", r.err, r.wraps)
        /\ IF r.err # ""
           THEN /\ Finish(p, Raised(r.err))
                /\ cache' = RedisSet(_cache_key(args[p].id),
                                     model_dump([SeedProduct EXCEPT
                                                   !.id = args[p].id,
                                                   !.is_active = FALSE]), NoTTL)
                /\ UNCHANGED local
           ELSE /\ local' = [local EXCEPT ![p].product = r.product]
                /\ Goto(p, "get_set")
                /\ UNCHANGED << ret, cache >>
  /\ UNCHANGED << mongo, search, now, ticks, nextId, opsLeft, bulk, indexExists, request_context, indexedMore, args,
                  lastDone, deleted >>

\* product = await self._mongo.get_by_id(product_id)
GetMongo(p) ==
  /\ pc[p] = "get_mongo"
  /\ \/ /\ Log(p, "mongo", "get_by_id", "DatabaseError")
        /\ Finish(p, Raised("DatabaseError"))
        /\ UNCHANGED local
     \/ LET r == MongoGetById(args[p].id) IN
        /\ LogWrapping(p, "mongo", "get_by_id", r.err, r.wraps)
        /\ IF r.err # ""
           THEN Finish(p, Raised(r.err)) /\ UNCHANGED local
           ELSE /\ local' = [local EXCEPT ![p].product = r.product]
                /\ Goto(p, "get_set")
                /\ UNCHANGED ret
  /\ UNCHANGED << mongo, cache, search, now, ticks, nextId, opsLeft, bulk, indexExists, request_context, indexedMore, args,
                  lastDone, deleted >>

\* Mutant of GetReturn: the CacheError of the set is not suppressed.
GetReturn_Propagates(p, out) ==
  Finish(p, IF out = "" THEN Ok(local[p].product) ELSE Raised(out))

\* get_by_id: with contextlib.suppress(CacheError) around set, then return product.
GetReturn(p, out) == Finish(p, Ok(local[p].product))

\* History: every delete_pattern under way notes the key that call p has set
\* meanwhile (`raced` is no variable of the code).
NoteRacingSet(p, key) ==
  [q \in Procs |->
     IF q # p /\ pc[q] \in {"clear_scan", "clear_delete"}
     THEN [local[q] EXCEPT !.raced = @ \cup {key}]
     ELSE local[q]]

\* with suppress(CacheError): await self._cache.set(cache_key, product.model_dump())
GetSet(p) ==
  /\ pc[p] = "get_set"
  /\ \E out \in CacheOutcomes :
       /\ cache' = IF out = ""
                   THEN RedisSet(_cache_key(args[p].id), model_dump(local[p].product), NoTTL)
                   ELSE cache
       /\ local' = IF out = "" THEN NoteRacingSet(p, _cache_key(args[p].id)) ELSE local
       /\ Log(p, "cache", "set", out)
       /\ GetReturn(p, out)
  /\ UNCHANGED << mongo, search, now, ticks, nextId, opsLeft, bulk, indexExists, request_context, indexedMore, args,
                  lastDone, deleted >>

(* ----------------------- ProductService.update ------------------------ *)

StartUpdate(p) ==
  /\ pc[p] = "idle"
  /\ \E id \in Ids, data \in UpdatePayloads :
       Begin(p, [op |-> "update", id |-> id, data |-> data], "update_find")

\* MongoRepository.update: product = await self.get_by_id(product_id); then, up
\* to the next await, update_data is stamped with datetime.now(UTC) and set on
\* the product in memory.
UpdateFind(p) ==
  /\ pc[p] = "update_find"
  /\ \/ /\ Log(p, "mongo", "update", "DatabaseError")
        /\ Finish(p, Raised("DatabaseError"))
        /\ UNCHANGED local
     \/ LET r == MongoGetById(args[p].id) IN
        IF r.err # ""
        THEN /\ LogWrapping(p, "mongo", "update", r.err, r.wraps)
             /\ Finish(p, Raised(r.err))
             /\ UNCHANGED local
        ELSE /\ local' = [local EXCEPT ![p].product =
                                     MongoUpdateData(r.product, args[p].data, now),
                                   ![p].found_at = now]
             /\ Goto(p, "update_save")
             /\ UNCHANGED << ret, calls >>
  /\ UNCHANGED << mongo, cache, search, now, ticks, nextId, opsLeft, bulk, indexExists, request_context, indexedMore, args,
                  lastDone, deleted >>

\* MongoRepository.update: await product.save() when update_data is not empty
\* (the whole document, as it is in memory, is written under product.id and
\* inserted when missing); return product.
UpdateSave(p) ==
  /\ pc[p] = "update_save"
  /\ LET product == local[p].product IN
     IF MongoUpdateSaves(args[p].data)
     THEN \/ /\ Log(p, "mongo", "update", "DatabaseError")
             /\ Finish(p, Raised("DatabaseError"))
             /\ UNCHANGED mongo
          \/ /\ mongo' = Put(mongo, product.id, product)
             /\ Log(p, "mongo", "update", "")
             /\ Goto(p, "update_cache")
             /\ UNCHANGED ret
     ELSE /\ Log(p, "mongo", "update", "")
          /\ Goto(p, "update_cache")
          /\ UNCHANGED << mongo, ret >>
  /\ UNCHANGED << local, cache, search, now, ticks, nextId, opsLeft, bulk, indexExists, request_context, indexedMore, args, lastDone, deleted >>

\* Mutant of UpdateAfterInvalidate: a failed invalidation skips the re-index.
UpdateAfterInvalidate_SkipsIndex(p, out) ==
  IF out = ""
  THEN Goto(p, "update_index") /\ UNCHANGED ret
  ELSE Finish(p, Ok(local[p].product))

\* update: with contextlib.suppress(CacheError) around delete -- the re-index
\* follows whatever the outcome of the invalidation.
UpdateAfterInvalidate(p, out) == Goto(p, "update_index") /\ UNCHANGED ret

\* Mutant of UpdateCache: the cache entry is left in place.
UpdateCache_KeepsEntry(p) ==
  /\ pc[p] = "update_cache"
  /\ \E out \in CacheOutcomes :
       /\ Log(p, "cache", "delete", out)
       /\ UpdateAfterInvalidate(p, out)
  /\ UNCHANGED << mongo, cache, search, now, ticks, nextId, opsLeft, bulk, indexExists, request_context,
                  indexedMore, args, local, lastDone, deleted >>

\* with suppress(CacheError): await self._cache.delete(cache_key)
UpdateCache(p) ==
  /\ pc[p] = "update_cache"
  /\ \E out \in CacheOutcomes :
       /\ cache' = IF out = "" THEN RedisDelete(_cache_key(args[p].id)) ELSE cache
       /\ Log(p, "cache", "delete", out)
       /\ UpdateAfterInvalidate(p, out)
  /\ UNCHANGED << mongo, search, now, ticks, nextId, opsLeft, bulk, indexExists, request_context, indexedMore, args, local,
                  lastDone, deleted >>

\* update: with contextlib.suppress(SearchError) around index_document, then
\* return product.
UpdateReturn(p, out) == Finish(p, Ok(local[p].product))

\* with suppress(SearchError): await self._search.index_document(...); return product
UpdateIndex(p) ==
  /\ pc[p] = "update_index"
  /\ \E out \in SearchOutcomes :
       /\ search' = IF out = ""
                    THEN IndexDocument(search, Str("oid", local[p].product.id),
                                       model_dump(local[p].product))
                    ELSE search
       /\ Log(p, "search", "index_document", out)
       /\ UpdateReturn(p, out)
  /\ UNCHANGED << mongo, cache, now, ticks, nextId, opsLeft, bulk, indexExists, request_context, indexedMore, args, local,
                  lastDone, deleted >>

(* ----------------------- ProductService.delete ------------------------ *)

StartDelete(p) ==
  /\ pc[p] = "idle"
  /\ \E id \in Ids :
       Begin(p, [op |-> "delete", id |-> id, data |-> << >>], "delete_find")

\* Mutant of OnMongoDeleteError: the error is swallowed and the cascade runs.
OnMongoDeleteError_Continues(p, err) == Goto(p, "delete_cache") /\ UNCHANGED ret

\* delete: await self._mongo.delete(product_id) is outside every try/suppress,
\* so what it raises leaves ProductService.delete at once.
OnMongoDeleteError(p, err) == Finish(p, Raised(err))

\* MongoRepository.delete: product = await self.get_by_id(product_id)
DeleteFind(p) ==
  /\ pc[p] = "delete_find"
  /\ \/ /\ Log(p, "mongo", "delete", "DatabaseError")
        /\ OnMongoDeleteError(p, "DatabaseError")
        /\ UNCHANGED local
     \/ LET r == MongoGetById(args[p].id) IN
        IF r.err # ""
        THEN /\ LogWrapping(p, "mongo", "delete", r.err, r.wraps)
             /\ OnMongoDeleteError(p, r.err)
             /\ UNCHANGED local
        ELSE /\ local' = [local EXCEPT ![p].product = r.product]
             /\ Goto(p, "delete_remove")
             /\ UNCHANGED << ret, calls >>
  /\ UNCHANGED << mongo, cache, search, now, ticks, nextId, opsLeft, bulk, indexExists, request_context, indexedMore, args,
                  lastDone, deleted >>

\* MongoRepository.delete: await product.delete()
DeleteRemove(p) ==
  /\ pc[p] = "delete_remove"
  /\ \/ /\ Log(p, "mongo", "delete", "DatabaseError")
        /\ OnMongoDeleteError(p, "DatabaseError")
        /\ UNCHANGED mongo
     \/ /\ mongo' = Drop(mongo, {local[p].product.id})
        /\ Log(p, "mongo", "delete", "")
        /\ Goto(p, "delete_cache")
        /\ UNCHANGED ret
  /\ UNCHANGED << cache, search, now, ticks, nextId, opsLeft, bulk, indexExists, request_context, indexedMore, args, local,
                  lastDone, deleted >>

\* Mutant of DeleteAfterInvalidate: a failed cache delete skips the search delete.
DeleteAfterInvalidate_SkipsSearch(p, out) ==
  IF out = ""
  THEN Goto(p, "delete_search") /\ UNCHANGED ret
  ELSE Finish(p, Ok(NoProduct))

\* delete: with contextlib.suppress(CacheError) around delete -- the search
\* delete follows whatever the outcome of the cache delete.
DeleteAfterInvalidate(p, out) == Goto(p, "delete_search") /\ UNCHANGED ret

\* with suppress(CacheError): await self._cache.delete(cache_key)
DeleteCache(p) ==
  /\ pc[p] = "delete_cache"
  /\ \E out \in CacheOutcomes :
       /\ cache' = IF out = "" THEN RedisDelete(_cache_key(args[p].id)) ELSE cache
       /\ Log(p, "cache", "delete", out)
       /\ DeleteAfterInvalidate(p, out)
  /\ UNCHANGED << mongo, search, now, ticks, nextId, opsLeft, bulk, indexExists, request_context, indexedMore, args, local,
                  lastDone, deleted >>

\* Mutant of DeleteReturn: delete reports that the Item had no search document.
DeleteReturn_ReportsMissingDocument(p, out) ==
  Finish(p, IF Str("oid", args[p].id) \in DOMAIN search
            THEN Ok(NoProduct) ELSE Raised("NotFoundError"))

\* Mutant of DeleteReturn: the SearchError is not suppressed.
DeleteReturn_Propagates(p, out) ==
  Finish(p, IF out = "" THEN Ok(NoProduct) ELSE Raised(out))

\* delete: with contextlib.suppress(SearchError) around delete_document; the
\* coroutine then ends, returning None.
DeleteReturn(p, out) == Finish(p, Ok(NoProduct))

\* with suppress(SearchError): await self._search.delete_document(product_id)
DeleteSearch(p) ==
  /\ pc[p] = "delete_search"
  /\ \E out \in SearchOutcomes :
       /\ out = "" => DeleteDocumentOk(Str("oid", args[p].id))
       /\ search' = IF out = "" THEN Drop(search, {Str("oid", args[p].id)}) ELSE search
       /\ Log(p, "search", "delete_document", out)
       /\ DeleteReturn(p, out)
  /\ UNCHANGED << mongo, cache, now, ticks, nextId, opsLeft, bulk, indexExists, request_context, indexedMore, args, local,
                  lastDone, deleted >>

(* --------------------- ProductService.reindex_all --------------------- *)

\* await service.reindex_all()
ReindexCall == [op |-> "reindex_all", id |-> 0, data |-> << >>]

StartReindex(p) ==
  /\ pc[p] = "idle"
  /\ Begin(p, ReindexCall, "reindex_list")

\* products = await self._mongo.list_all(limit=10000)
\* documents = [product.model_dump() for product in products]
ReindexList(p) ==
  /\ pc[p] = "reindex_list"
  /\ \/ /\ Log(p, "mongo", "list_all", "DatabaseError")
        /\ Finish(p, Raised("DatabaseError"))
        /\ UNCHANGED local
     \/ IF \E i \in DOMAIN mongo : ~ValidProduct(mongo[i])
        THEN /\ LogWrapping(p, "mongo", "list_all", "DatabaseError", "ValidationError")
             /\ Finish(p, Raised("DatabaseError"))
             /\ UNCHANGED local
        ELSE LET products == MongoListAll(ReindexLimit) IN
             /\ local' = [local EXCEPT
                  ![p].documents =
                    [k \in 1..Len(products) |-> model_dump(mongo[products[k]])],
                  ![p].more = MongoListAllMore(ReindexLimit)]
             /\ Log(p, "mongo", "list_all", "")
             /\ Goto(p, "reindex_bulk")
             /\ UNCHANGED ret
  /\ UNCHANGED << mongo, cache, search, now, ticks, nextId, opsLeft, bulk, indexExists, request_context, indexedMore, args,
                  lastDone, deleted >>

\* Mutant of ReindexBulk: the cache entries of the re-indexed products are
\* invalidated as well.
ReindexBulk_InvalidatesCache(p) ==
  /\ pc[p] = "reindex_bulk"
  /\ LET documents == local[p].documents IN
     \/ /\ BulkIndexCallsClient(documents, local[p].more)
        /\ Log(p, "search", "bulk_index", "SearchError")
        /\ Finish(p, Raised("SearchError"))
        /\ UNCHANGED << search, indexedMore, cache >>
     \/ /\ search' = BulkApply(search, documents)
        /\ indexedMore' = BulkApplyMore(local[p].more)
        /\ cache' = Drop(cache, { _cache_key(documents[k].id[2]) :
                                    k \in 1..Len(documents) })
        /\ Log(p, "search", "bulk_index", "")
        /\ Finish(p, OkCount(Len(documents) + local[p].more))
  /\ UNCHANGED << mongo, now, ticks, nextId, opsLeft, bulk, indexExists, request_context, args, local,
                  lastDone, deleted >>

\* await self._search.bulk_index(documents); return len(documents)
\* (documents: those of the products addressed by id, then local.more others).
ReindexBulk(p) ==
  /\ pc[p] = "reindex_bulk"
  /\ LET documents == local[p].documents IN
     \/ /\ BulkIndexCallsClient(documents, local[p].more)
        /\ Log(p, "search", "bulk_index", "SearchError")
        /\ Finish(p, Raised("SearchError"))
        /\ UNCHANGED << search, indexedMore >>
     \/ /\ search' = BulkApply(search, documents)
        /\ indexedMore' = BulkApplyMore(local[p].more)
        /\ calls' = [calls EXCEPT ![p] = Append(@,
                       IF BulkIndexCallsClient(documents, local[p].more)
                       THEN Call("search", "bulk_index", "")
                       ELSE CallNoClient("search", "bulk_index"))]
        /\ Finish(p, OkCount(Len(documents) + local[p].more))
  /\ UNCHANGED << mongo, cache, now, ticks, nextId, opsLeft, bulk, indexExists, request_context, args, local,
                  lastDone, deleted >>

(* --------------------- ProductService.clear_cache --------------------- *)

\* await service.clear_cache()
ClearCacheCall == [op |-> "clear_cache", id |-> 0, data |-> << >>]

StartClearCache(p) ==
  /\ pc[p] = "idle"
  /\ Begin(p, ClearCacheCall, "clear_scan")

\* Position of a key in the keyspace walked by SCAN.
Slot(k) == k[2]

\* RedisRepository.delete_pattern:
\*   cursor, keys = await self._client.scan(cursor=cursor, match=pattern, count=100)
\* The server returns the matching keys of the slots it walked (count is a hint)
\* and cursor 0 once the walk is complete.
ClearScan(p) ==
  /\ pc[p] = "clear_scan"
  /\ \/ /\ Log(p, "cache", "delete_pattern", "CacheError")
        /\ Finish(p, Raised("CacheError"))
        /\ UNCHANGED local
     \/ \E upto \in (local[p].cursor + 1)..MaxItems :
          LET keys == { k \in LiveKeys : /\ MatchesPattern(k)
                                         /\ Slot(k) > local[p].cursor
                                         /\ Slot(k) <= upto }
              cursor == IF upto = MaxItems THEN 0 ELSE upto
          IN /\ local' = [local EXCEPT ![p].cursor = cursor, ![p].keys = keys]
             /\ IF keys # {}
                THEN Goto(p, "clear_delete") /\ UNCHANGED << ret, calls >>
                ELSE IF cursor = 0
                     THEN Log(p, "cache", "delete_pattern", "") /\ Finish(p, Ok(NoProduct))
                     ELSE UNCHANGED << pc, ret, calls >>
  /\ UNCHANGED << mongo, cache, search, now, ticks, nextId, opsLeft, bulk, indexExists, request_context, indexedMore, args,
                  lastDone, deleted >>

\* Mutant of ClearDelete: the deletion takes every key of the scanned slots,
\* whatever its prefix.
ClearDelete_IgnoresPattern(p) ==
  /\ pc[p] = "clear_delete"
  /\ \/ /\ Log(p, "cache", "delete_pattern", "CacheError")
        /\ Finish(p, Raised("CacheError"))
        /\ UNCHANGED cache
     \/ /\ cache' = Drop(cache, { k \in DOMAIN cache :
                                    \E m \in local[p].keys : Slot(k) = Slot(m) })
        /\ IF local[p].cursor = 0
           THEN Log(p, "cache", "delete_pattern", "") /\ Finish(p, Ok(NoProduct))
           ELSE Goto(p, "clear_scan") /\ UNCHANGED << ret, calls >>
  /\ UNCHANGED << mongo, search, now, ticks, nextId, opsLeft, bulk, indexExists, request_context, indexedMore, args, local,
                  lastDone, deleted >>

\* Mutant of ClearDelete: the loop ends after the first batch it deleted.
ClearDelete_StopsAfterBatch(p) ==
  /\ pc[p] = "clear_delete"
  /\ \/ /\ Log(p, "cache", "delete_pattern", "CacheError")
        /\ Finish(p, Raised("CacheError"))
        /\ UNCHANGED cache
     \/ /\ cache' = Drop(cache, local[p].keys)
        /\ Log(p, "cache", "delete_pattern", "") /\ Finish(p, Ok(NoProduct))
  /\ UNCHANGED << mongo, search, now, ticks, nextId, opsLeft, bulk, indexExists, request_context, indexedMore, args, local,
                  lastDone, deleted >>

\*   if keys: await self._client.delete(*keys)
\*   if cursor == 0: break
ClearDelete(p) ==
  /\ pc[p] = "clear_delete"
  /\ \/ /\ Log(p, "cache", "delete_pattern", "CacheError")
        /\ Finish(p, Raised("CacheError"))
        /\ UNCHANGED cache
     \/ /\ cache' = Drop(cache, local[p].keys)
        /\ IF local[p].cursor = 0
           THEN Log(p, "cache", "delete_pattern", "") /\ Finish(p, Ok(NoProduct))
           ELSE Goto(p, "clear_scan") /\ UNCHANGED << ret, calls >>
  /\ UNCHANGED << mongo, search, now, ticks, nextId, opsLeft, bulk, indexExists, request_context, indexedMore, args, local,
                  lastDone, deleted >>

(* ------- ProductService.search / search_by_category / ..._price_range -- *)

SearchCalls ==
  { [op |-> "search", id |-> 0, data |-> "widget"],
    [op |-> "search_by_category", id |-> 0, data |-> "TOOLS"],
    [op |-> "search_by_category", id |-> 0, data |-> "tools"],
    [op |-> "search_by_price_range", id |-> 0, data |-> << 1000, 2000 >>] }

StartSearch(p) ==
  /\ pc[p] = "idle"
  /\ \E call \in SearchCalls : Begin(p, call, "search_query")

\* return await self._search.<query>(...): nothing is caught
SearchQuery(p) ==
  /\ pc[p] = "search_query"
  /\ \/ /\ Log(p, "search", args[p].op, "SearchError")
        /\ Finish(p, Raised("SearchError"))
     \/ /\ Log(p, "search", args[p].op, "")
        /\ \E r \in SearchResponses(QueryMatches(args[p].op, args[p].data),
                                     QueryMatchesMore(args[p].op, args[p].data),
                                     QuerySize(args[p].op)) :
             Finish(p, OkHits(r.hits, r.n))
  /\ UNCHANGED << mongo, cache, search, now, ticks, nextId, opsLeft, bulk, indexExists, request_context, indexedMore, args, local,
                  lastDone, deleted >>

(* ---------------------- ProductService.list_all ----------------------- *)

\* The products a list_all call returned, in order.
OkList(products) ==
  [status |-> "ok", err |-> "", value |-> NoProduct, n |-> Len(products),
   hits |-> {}, items |-> products]

\* list_all calls as the route passes them on: skip >= 0, limit >= 1, category
\* a string or None, is_active a flag or None.
ListCalls ==
  { [op |-> "list_all", id |-> 0,
     data |-> [skip |-> s, limit |-> l, category |-> c, is_active |-> a]] :
      s \in {0, 1}, l \in {1, 2}, c \in {NULL, "", "Tools", "tools"},
      a \in {NoFlag, << TRUE >>, << FALSE >>} }

StartListAll(p) ==
  /\ pc[p] = "idle"
  /\ \E call \in ListCalls : Begin(p, call, "list_all")

\* return await self._mongo.list_all(skip=..., limit=..., category=..., is_active=...)
\* (to_list builds a Product of every document found; a failure of the client
\* or of that validation is re-raised as DatabaseError).
ListAll(p) ==
  /\ pc[p] = "list_all"
  /\ LET a == args[p].data
         found == MongoListQuery(a.category, a.is_active)
         page == MongoListPage(found, a.skip, a.limit) IN
     \/ /\ Log(p, "mongo", "list_all", "DatabaseError")
        /\ Finish(p, Raised("DatabaseError"))
     \/ IF \E k \in DOMAIN page : ~ValidProduct(mongo[page[k]])
        THEN /\ LogWrapping(p, "mongo", "list_all", "DatabaseError", "ValidationError")
             /\ Finish(p, Raised("DatabaseError"))
        ELSE /\ Log(p, "mongo", "list_all", "")
             /\ Finish(p, OkList([k \in DOMAIN page |-> mongo[page[k]]]))
  /\ UNCHANGED << mongo, cache, search, now, ticks, nextId, opsLeft, bulk, indexExists, request_context,
                  indexedMore, args, local, lastDone, deleted >>

(* ------------------- ElasticRepository.create_index ------------------ *)

\* await search.create_index()
CreateIndexCall == [op |-> "create_index", id |-> 0, data |-> << >>]

StartCreateIndex(p) ==
  /\ pc[p] = "idle"
  /\ Begin(p, CreateIndexCall, "index_exists")

\* Mutant of IndexExistsCheck: the answer of indices.exists is not looked at.
IndexExistsCheck_AlwaysCreates(p) ==
  /\ pc[p] = "index_exists"
  /\ \/ /\ LogWrapping(p, "search_client", "indices.exists", "ClientError", "")
        /\ Finish(p, Raised("SearchError"))
     \/ /\ LogWrapping(p, "search_client", "indices.exists", "", "")
        /\ Goto(p, "index_create") /\ UNCHANGED ret
  /\ UNCHANGED << mongo, cache, search, now, ticks, nextId, opsLeft, bulk, indexExists, request_context,
                  indexedMore, args, local, lastDone, deleted >>

\* exists = await self._client.indices.exists(index=self._index)
\* if not exists: ...   (any exception of the client becomes SearchError)
IndexExistsCheck(p) ==
  /\ pc[p] = "index_exists"
  /\ \/ /\ LogWrapping(p, "search_client", "indices.exists", "ClientError", "")
        /\ Finish(p, Raised("SearchError"))
     \/ /\ LogWrapping(p, "search_client", "indices.exists", "", "")
        /\ IF indexExists
           THEN Finish(p, Ok(NoProduct))
           ELSE Goto(p, "index_create") /\ UNCHANGED ret
  /\ UNCHANGED << mongo, cache, search, now, ticks, nextId, opsLeft, bulk, indexExists, request_context,
                  indexedMore, args, local, lastDone, deleted >>

\* await self._client.indices.create(index=self._index, body=mapping)
\* The server creates an index that does not exist and rejects the request
\* for one that does; a request can also fail on its way, before or after the
\* server acted on it.
IndexCreate(p) ==
  /\ pc[p] = "index_create"
  /\ \/ /\ LogWrapping(p, "search_client", "indices.create", "ClientError", "")
        /\ Finish(p, Raised("SearchError"))
        /\ indexExists' \in {indexExists, TRUE}
     \/ /\ ~ indexExists
        /\ indexExists' = TRUE
        /\ LogWrapping(p, "search_client", "indices.create", "", "")
        /\ Finish(p, Ok(NoProduct))
  /\ UNCHANGED << mongo, cache, search, now, ticks, nextId, opsLeft, bulk, request_context,
                  indexedMore, args, local, lastDone, deleted >>

(* ---------------------------- api/routes.py ---------------------------- *)

\* status.HTTP_404_NOT_FOUND
HTTP_404_NOT_FOUND == 404
\* status.HTTP_204_NO_CONTENT
HTTP_204_NO_CONTENT == 204
\* The status of a route that declares none.
HTTP_200_OK == 200

\* A response with a status code, or the exception that leaves the route.
Responds(code) == [code |-> code, raised |-> ""]

Unhandled(e) == [code |-> 0, raised |-> e]

\* ProductResponse(**product.model_dump()): name and category are str.
ProductResponseValid(v) == v.name # NULL /\ v.category # NULL

\* Mutant of ItemRoute: `except Exception` in place of `except NotFoundError`.
ItemRoute_CatchesAll(op, r) ==
  IF r.status = "raised" THEN Responds(HTTP_404_NOT_FOUND)
  ELSE IF op = "delete" THEN Responds(HTTP_204_NO_CONTENT)
  ELSE IF ProductResponseValid(r.value) THEN Responds(HTTP_200_OK)
  ELSE Unhandled("ValidationError")

\* get_product / update_product / delete_product around the service outcome r:
\* except NotFoundError -> HTTPException(404); nothing else is caught.
ItemRoute(op, r) ==
  IF r.status = "raised"
  THEN IF r.err = "NotFoundError" THEN Responds(HTTP_404_NOT_FOUND)
       ELSE Unhandled(r.err)
  ELSE IF op = "delete" THEN Responds(HTTP_204_NO_CONTENT)
  ELSE IF ProductResponseValid(r.value) THEN Responds(HTTP_200_OK)
  ELSE Unhandled("ValidationError")

(* ------------------------- return and clock --------------------------- *)

\* No cache adapter call of the current call raised.
CacheCallsOk(p) ==
  \A i \in 1..Len(calls[p]) : calls[p][i].repo = "cache" => calls[p][i].raised = ""

\* The coroutine returns to its caller; the history variables record it.
Return(p) ==
  /\ pc[p] = "done"
  /\ Goto(p, "idle")
  /\ lastDone' = IF args[p].op = "get_by_id" /\ ret[p].status = "ok"
                 THEN [op |-> "get_by_id", id |-> args[p].id, data |-> << >>,
                       value |-> ret[p].value,
                       cacheOk |-> CacheCallsOk(p),
                       exp |-> IF _cache_key(args[p].id) \in LiveKeys
                               THEN cache[_cache_key(args[p].id)].exp ELSE 0]
                 ELSE IF args[p].op = "create" /\ ret[p].status = "ok"
                 THEN [op |-> "create", id |-> ret[p].value.id,
                       data |-> args[p].data, value |-> ret[p].value,
                       cacheOk |-> TRUE, exp |-> 0]
                 ELSE IF args[p].op = "get_by_id" /\ ret[p] = Raised("NotFoundError")
                 THEN [NoHistory EXCEPT !.op = "get_by_id_not_found",
                                        !.id = args[p].id]
                 ELSE NoHistory
  /\ deleted' = IF args[p].op = "delete" /\ ret[p].status = "ok"
                THEN Put(deleted, args[p].id, CacheCallsOk(p))
                ELSE deleted
  /\ args' = [args EXCEPT ![p] = NoCall]
  /\ local' = [local EXCEPT ![p] = NoLocals]
  /\ ret' = [ret EXCEPT ![p] = Pending]
  /\ calls' = [calls EXCEPT ![p] = << >>]
  /\ UNCHANGED << mongo, cache, search, now, ticks, nextId, opsLeft, bulk, indexExists, request_context, indexedMore >>

\* Time passes; redis drops the entries whose TTL has run out.
Tick ==
  /\ ticks < MaxTicks
  /\ ticks' = ticks + 1
  /\ \E len \in TickLens :
       /\ now' = now + len * TickSeconds
       /\ cache' = Drop(cache, { k \in DOMAIN cache :
                                   cache[k].exp <= now + len * TickSeconds })
  /\ UNCHANGED << mongo, search, nextId, opsLeft, bulk, indexExists, request_context, indexedMore, pc, args, local, ret, calls,
                  lastDone, deleted >>

Next ==
  \/ \E p \in Procs : StartCreate(p)
  \/ \E p \in Procs : CreateInsert(p)
  \/ \E p \in Procs : CreateIndex(p)
  \/ \E p \in Procs : StartGet(p)
  \/ \E p \in Procs : GetCache(p)
  \/ \E p \in Procs : GetMongo(p)
  \/ \E p \in Procs : GetSet(p)
  \/ \E p \in Procs : StartUpdate(p)
  \/ \E p \in Procs : UpdateFind(p)
  \/ \E p \in Procs : UpdateSave(p)
  \/ \E p \in Procs : UpdateCache(p)
  \/ \E p \in Procs : UpdateIndex(p)
  \/ \E p \in Procs : StartDelete(p)
  \/ \E p \in Procs : DeleteFind(p)
  \/ \E p \in Procs : DeleteRemove(p)
  \/ \E p \in Procs : DeleteCache(p)
  \/ \E p \in Procs : DeleteSearch(p)
  \/ \E p \in Procs : StartReindex(p)
  \/ \E p \in Procs : ReindexList(p)
  \/ \E p \in Procs : ReindexBulk(p)
  \/ \E p \in Procs : StartClearCache(p)
  \/ \E p \in Procs : ClearScan(p)
  \/ \E p \in Procs : ClearDelete(p)
  \/ \E p \in Procs : StartSearch(p)
  \/ \E p \in Procs : SearchQuery(p)
  \/ \E p \in Procs : Return(p)
  \/ Tick

\* Requests interleave at every await.
Spec == Init /\ [][Next]_vars

\* The same steps, a request entering only while no other is in flight.
SeqNext ==
  \/ \E p \in Procs : InFlight = {} /\ StartCreate(p)
  \/ \E p \in Procs : CreateInsert(p)
  \/ \E p \in Procs : CreateIndex(p)
  \/ \E p \in Procs : InFlight = {} /\ StartGet(p)
  \/ \E p \in Procs : GetCache(p)
  \/ \E p \in Procs : GetMongo(p)
  \/ \E p \in Procs : GetSet(p)
  \/ \E p \in Procs : InFlight = {} /\ StartUpdate(p)
  \/ \E p \in Procs : UpdateFind(p)
  \/ \E p \in Procs : UpdateSave(p)
  \/ \E p \in Procs : UpdateCache(p)
  \/ \E p \in Procs : UpdateIndex(p)
  \/ \E p \in Procs : InFlight = {} /\ StartDelete(p)
  \/ \E p \in Procs : DeleteFind(p)
  \/ \E p \in Procs : DeleteRemove(p)
  \/ \E p \in Procs : DeleteCache(p)
  \/ \E p \in Procs : DeleteSearch(p)
  \/ \E p \in Procs : InFlight = {} /\ StartReindex(p)
  \/ \E p \in Procs : ReindexList(p)
  \/ \E p \in Procs : ReindexBulk(p)
  \/ \E p \in Procs : InFlight = {} /\ StartClearCache(p)
  \/ \E p \in Procs : ClearScan(p)
  \/ \E p \in Procs : ClearDelete(p)
  \/ \E p \in Procs : InFlight = {} /\ StartSearch(p)
  \/ \E p \in Procs : SearchQuery(p)
  \/ \E p \in Procs : Return(p)
  \/ Tick

\* Non-overlapping service calls.
SeqSpec == Init /\ [][SeqNext]_vars

\* Calls one at a time over a collection that may be ReindexLimit products larger.
BulkSpec == BulkInit /\ [][SeqNext]_vars

\* A second product, created inactive (is_active=False in the payload).
InactiveProduct ==
  NewProduct(2, [name |-> "Gadget", description |-> "d", price |-> 2499,
                 stock |-> 3, category |-> "tools", is_active |-> FALSE], 0)

\* Two create() calls have completed, the second with an inactive product.
TwoStoredInit ==
  /\ mongo = Put(Put(<< >>, 1, SeedProduct), 2, InactiveProduct)
  /\ search = IndexDocument(
                IndexDocument(<< >>, Str("oid", 1), model_dump(SeedProduct)),
                Str("oid", 2), model_dump(InactiveProduct))
  /\ cache = << >>
  /\ nextId = 3
  /\ lastDone = NoHistory
  /\ now = 0
  /\ ticks = 0
  /\ opsLeft = MaxBudget
  /\ pc = [p \in Procs |-> "idle"]
  /\ args = [p \in Procs |-> NoCall]
  /\ local = [p \in Procs |-> NoLocals]
  /\ ret = [p \in Procs |-> Pending]
  /\ calls = [p \in Procs |-> << >>]
  /\ deleted = << >>
  /\ indexExists = TRUE
  /\ request_context = [p \in Procs |-> NoContext]
  /\ bulk = 0
  /\ indexedMore = 0

ListInit == Init \/ TwoStoredInit

\* list_all calls and create calls, one at a time, as the clock moves.
ListNext ==
  \/ \E p \in Procs : InFlight = {} /\ StartCreate(p)
  \/ \E p \in Procs : CreateInsert(p)
  \/ \E p \in Procs : CreateIndex(p)
  \/ \E p \in Procs : InFlight = {} /\ StartListAll(p)
  \/ \E p \in Procs : ListAll(p)
  \/ \E p \in Procs : Return(p)
  \/ Tick

ListSpec == ListInit /\ [][ListNext]_vars

\* A deployment that may not have its index yet: nothing is indexed without one.
IndexInit ==
  /\ InitStores!1
  /\ now = 0
  /\ ticks = 0
  /\ opsLeft = MaxBudget
  /\ pc = [p \in Procs |-> "idle"]
  /\ args = [p \in Procs |-> NoCall]
  /\ local = [p \in Procs |-> NoLocals]
  /\ ret = [p \in Procs |-> Pending]
  /\ calls = [p \in Procs |-> << >>]
  /\ deleted = << >>
  /\ bulk = 0
  /\ indexedMore = 0
  /\ indexExists \in (IF search = << >> THEN BOOLEAN ELSE {TRUE})
  /\ request_context = [p \in Procs |-> NoContext]

\* create_index calls, overlapping, as the clock moves.
IndexNext ==
  \/ \E p \in Procs : StartCreateIndex(p)
  \/ \E p \in Procs : IndexExistsCheck(p)
  \/ \E p \in Procs : IndexCreate(p)
  \/ \E p \in Procs : Return(p)
  \/ Tick

IndexSpec == IndexInit /\ [][IndexNext]_vars

\* The service process stops while call p is at an await: its coroutines are
\* gone, the three stores keep what they hold.  The history notes which call
\* was cut short after its primary-store write and before its cache step.
Crash(p) ==
  /\ pc[p] \notin {"idle", "done"}
  /\ lastDone' = [NoHistory EXCEPT
                    !.op = CASE pc[p] = "update_cache" -> "update_stopped"
                             [] pc[p] = "delete_cache" -> "delete_stopped"
                             [] OTHER -> "stopped",
                    !.id = args[p].id]
  /\ pc' = [q \in Procs |-> "idle"]
  /\ args' = [q \in Procs |-> NoCall]
  /\ local' = [q \in Procs |-> NoLocals]
  /\ ret' = [q \in Procs |-> Pending]
  /\ calls' = [q \in Procs |-> << >>]
  /\ UNCHANGED << mongo, cache, search, now, ticks, nextId, opsLeft, bulk, indexExists, request_context, indexedMore,
                  deleted >>

CrashNext == SeqNext \/ \E p \in Procs : Crash(p)

\* Calls one at a time, in a process that can stop and be started again.
CrashSpec == Init /\ [][CrashNext]_vars

(* ============================== claims ================================ *)

DoneGet(p) == pc[p] = "done" /\ args[p].op = "get_by_id"

\* The current call reached no primary-store method.
ServedFromCache(p) == \A i \in 1..Len(calls[p]) : calls[p][i].repo # "mongo"

CacheCallFailed(p) ==
  \E i \in 1..Len(calls[p]) : calls[p][i].repo = "cache" /\ calls[p][i].raised # ""

(* ------------------------------- C1 ----------------------------------- *)

SecondGet(p) ==
  /\ DoneGet(p)
  /\ lastDone.op = "get_by_id"
  /\ lastDone.id = args[p].id
  /\ args[p].id \in DOMAIN mongo

\* C2 (as stated): two consecutive get_by_id(id) of a stored id, nothing written
\* or cleared in between and no time passed (so nothing expired), return the
\* same Item, and the second one does not reach the primary store.  (A second
\* call that ends in a DatabaseError of the primary store is left out of the
\* statement, which only makes it weaker.)
C2_SecondGetFromCache ==
  \A p \in Procs :
    (SecondGet(p) /\ ticks = 0 /\ ret[p].err # "DatabaseError")
      => (ret[p] = Ok(lastDone.value) /\ ServedFromCache(p))

\* C2 (amended): the same, provided no cache adapter call fails in either call
\* and the entry the first call left has not expired.
C2_SecondGetFromCacheWhenCacheWorks ==
  \A p \in Procs :
    (/\ SecondGet(p)
     /\ lastDone.cacheOk
     /\ ~CacheCallFailed(p)
     /\ now < lastDone.exp)
      => (ret[p] = Ok(lastDone.value) /\ ServedFromCache(p))

\* C2 witness: the first call read the primary store and cached the snapshot,
\* the second was answered by the cache alone with the same Item.
C2_Witness ==
  \E p \in Procs :
    /\ SecondGet(p)
    /\ lastDone.cacheOk
    /\ now < lastDone.exp
    /\ calls[p] = << Call("cache", "get", "") >>
    /\ ret[p] = Ok(mongo[args[p].id])
    /\ ret[p] = Ok(lastDone.value)

(* ------------------------------- C3 ----------------------------------- *)

\* The primary-store read of get_by_id: a stored id is answered with the stored
\* document of that moment, or the store itself fails.
C3_ReadStep ==
  \A p \in Procs :
    (pc[p] = "get_mongo" /\ pc'[p] # "get_mongo" /\ args[p].id \in DOMAIN mongo)
      => \/ pc'[p] = "get_set" /\ local'[p].product = mongo[args[p].id]
         \/ pc'[p] = "done" /\ ret'[p] = Raised("DatabaseError")

\* A get_by_id in which a cache call raised ends like a cache miss: it went to
\* the primary store and returns what that read produced; no CacheError.
C3_AfterCacheFailure ==
  \A p \in Procs :
    (DoneGet(p) /\ CacheCallFailed(p))
      => /\ ret[p].err # "CacheError"
         /\ \E i \in 1..Len(calls[p]) :
              /\ calls[p][i].repo = "mongo"
              /\ calls[p][i].method = "get_by_id"
              /\ IF calls[p][i].raised = ""
                 THEN ret[p] = Ok(local[p].product)
                 ELSE ret[p] = Raised(calls[p][i].raised)

\* C3: for an id in the primary store, a CacheError from the cache get and/or
\* the cache set does not reach the caller of get_by_id, which still returns the
\* Item the primary store holds when it is read.
C3_CacheFailureIsAMiss == [][C3_ReadStep]_vars /\ []C3_AfterCacheFailure

\* C3 witness: both the cache get and the cache set raised, and the stored
\* Item was returned.
C3_Witness ==
  \E p \in Procs :
    /\ DoneGet(p)
    /\ calls[p] = << Call("cache", "get", "CacheError"),
                     Call("mongo", "get_by_id", ""),
                     Call("cache", "set", "CacheError") >>
    /\ args[p].id \in DOMAIN mongo
    /\ ret[p] = Ok(mongo[args[p].id])

(* ------------------------------- C4 ----------------------------------- *)

CreateIndexFailed(p) ==
  /\ pc[p] = "done"
  /\ args[p].op = "create"
  /\ calls[p] = << Call("mongo", "create", ""),
                   Call("search", "index_document", "SearchError") >>

\* C4: in non-overlapping calls, a create whose primary-store insert succeeded
\* and whose index_document raised SearchError returns the created Item; the
\* Item is in the primary store and the index holds no document for it.
C4_CreateSurvivesIndexFailure ==
  \A p \in Procs :
    CreateIndexFailed(p)
      => /\ ret[p].status = "ok"
         /\ ret[p].value.id \in DOMAIN mongo
         /\ mongo[ret[p].value.id] = ret[p].value
         /\ Str("oid", ret[p].value.id) \notin DOMAIN search

\* C4 witness: such a create has returned the stored Item.
C4_Witness ==
  \E p \in Procs :
    /\ CreateIndexFailed(p)
    /\ ret[p].status = "ok"
    /\ ret[p].value.id \in DOMAIN mongo
    /\ Str("oid", ret[p].value.id) \notin DOMAIN search

(* ------------------------------- C5 ----------------------------------- *)

IsPrefix(a, b) == Len(a) <= Len(b) /\ a = SubSeq(b, 1, Len(a))

\* Primary-store write, then cache delete, then index_document.
UpdateCallOrders ==
  { << Call("mongo", "update", ""), Call("cache", "delete", c),
       Call("search", "index_document", x) >> :
      c \in CacheOutcomes, x \in SearchOutcomes }

\* C5: in an update whose primary-store write succeeded, the adapter calls are,
\* in this order, the write, the cache delete and index_document; each next one
\* is attempted whether or not the one before raised, and the call returns the
\* updated Item.
C5_UpdateStepOrder ==
  \A p \in Procs :
    (args[p].op = "update" /\ calls[p] # << >> /\ calls[p][1].raised = "")
      => /\ \E order \in UpdateCallOrders : IsPrefix(calls[p], order)
         /\ pc[p] = CASE Len(calls[p]) = 1 -> "update_cache"
                      [] Len(calls[p]) = 2 -> "update_index"
                      [] OTHER -> "done"
         /\ pc[p] = "done" => ret[p] = Ok(local[p].product)

\* C5 witness: both best-effort steps raised, in that order after the write,
\* and the updated Item was returned.
C5_Witness ==
  \E p \in Procs :
    /\ pc[p] = "done"
    /\ args[p].op = "update"
    /\ calls[p] = << Call("mongo", "update", ""),
                     Call("cache", "delete", "CacheError"),
                     Call("search", "index_document", "SearchError") >>
    /\ ret[p] = Ok(local[p].product)
    /\ "stock" \in DOMAIN args[p].data
    /\ ret[p].value.stock = args[p].data.stock

(* ------------------------------- C6 ----------------------------------- *)

DeleteCallOrders ==
  { << Call("mongo", "delete", ""), Call("cache", "delete", c),
       Call("search", "delete_document", x) >> :
      c \in CacheOutcomes, x \in SearchOutcomes }

\* After the primary-store delete, the cache delete and then delete_document
\* are each attempted once, whatever the other did, and delete returns normally.
C6_DeleteCalls ==
  \A p \in Procs :
    (args[p].op = "delete" /\ calls[p] # << >> /\ calls[p][1].raised = "")
      => /\ \E order \in DeleteCallOrders : IsPrefix(calls[p], order)
         /\ pc[p] = CASE Len(calls[p]) = 1 -> "delete_cache"
                      [] Len(calls[p]) = 2 -> "delete_search"
                      [] OTHER -> "done"
         /\ pc[p] = "done" => ret[p] = Ok(NoProduct)

\* The search delete step, failing or not, leaves the cache as it is.
C6_SearchStepKeepsCache ==
  \A p \in Procs : (pc[p] = "delete_search" /\ pc'[p] = "done") => cache' = cache

\* C6: once the primary-store delete has succeeded, the cache delete and the
\* search delete are each attempted exactly once and independently, the search
\* delete does not undo the cache delete, and in all four outcomes delete
\* returns normally.
C6_DeleteCascadeIndependent == []C6_DeleteCalls /\ [][C6_SearchStepKeepsCache]_vars

\* C6 witness: the cache delete raised, the search delete was still attempted
\* and removed the document, and delete returned.
C6_Witness ==
  \E p \in Procs :
    /\ pc[p] = "done"
    /\ args[p].op = "delete"
    /\ calls[p] = << Call("mongo", "delete", ""),
                     Call("cache", "delete", "CacheError"),
                     Call("search", "delete_document", "") >>
    /\ Str("oid", args[p].id) \notin DOMAIN search
    /\ ret[p] = Ok(NoProduct)

(* ------------------------------- C7 ----------------------------------- *)

WriteOps == {"create", "update", "delete"}

\* The first adapter call of a write is the primary-store one; when it raises,
\* it is the only call and its error is what the service raises.
C7_PrimaryFailureEndsCall ==
  \A p \in Procs :
    (args[p].op \in WriteOps /\ calls[p] # << >>)
      => /\ calls[p][1].repo = "mongo"
         /\ calls[p][1].method = args[p].op
         /\ calls[p][1].raised # ""
              => /\ calls[p][1].raised \in {"NotFoundError", "DatabaseError"}
                 /\ Len(calls[p]) = 1
                 /\ pc[p] = "done"
                 /\ ret[p] = Raised(calls[p][1].raised)

\* The step in which a write raises changes no store.
C7_FailingStepChangesNothing ==
  \A p \in Procs :
    (/\ args[p].op \in WriteOps
     /\ pc[p] # "done" /\ pc'[p] = "done"
     /\ ret'[p].status = "raised")
      => (mongo' = mongo /\ cache' = cache /\ search' = search)

\* C7: when the primary-store step of create, update or delete fails, the
\* service raises that same error and calls neither the cache nor the search
\* adapter, so no store is changed.
C7_PrimaryFailurePropagates ==
  []C7_PrimaryFailureEndsCall /\ [][C7_FailingStepChangesNothing]_vars

\* C7 witness: a delete of a stored id failed in the primary store with
\* DatabaseError; that is the only call made and the error raised.
C7_Witness ==
  \E p \in Procs :
    /\ pc[p] = "done"
    /\ args[p].op = "delete"
    /\ args[p].id \in DOMAIN mongo
    /\ calls[p] = << Call("mongo", "delete", "DatabaseError") >>
    /\ ret[p] = Raised("DatabaseError")

(* ------------------------------- C8 ----------------------------------- *)

\* C8 (as stated): no service operation, clear_cache included, lets a
\* CacheError reach its caller.
C8_NoCacheErrorReachesCaller ==
  \A p \in Procs : ret[p].err # "CacheError"

\* C8 (amended): get_by_id, update and delete never let a CacheError reach
\* their caller; clear_cache, whose delete_pattern call is not guarded, is the
\* only operation that raises it.
C8_CacheErrorOnlyFromClearCache ==
  \A p \in Procs : ret[p].err = "CacheError" => args[p].op = "clear_cache"

\* C8 witness: a get_by_id whose cache set raised CacheError returned the Item.
C8_Witness ==
  \E p \in Procs :
    /\ DoneGet(p)
    /\ calls[p] = << Call("cache", "get", ""),
                     Call("mongo", "get_by_id", ""),
                     Call("cache", "set", "CacheError") >>
    /\ ret[p] = Ok(local[p].product)

(* ------------------------------- C9 ----------------------------------- *)

SearchOps == {"search", "search_by_category", "search_by_price_range"}

\* C9 (as stated): a SearchError reaches the caller only from the three search
\* queries; create, update, delete and reindex_all suppress it.
C9_SearchErrorOnlyFromQueries ==
  \A p \in Procs : ret[p].err = "SearchError" => args[p].op \in SearchOps

\* C9 (amended): a SearchError reaches the caller only from the three search
\* queries and from reindex_all, whose bulk_index call is not guarded; create,
\* update and delete suppress it.
C9_SearchErrorOnlyFromQueriesAndReindex ==
  \A p \in Procs :
    ret[p].err = "SearchError" => args[p].op \in SearchOps \cup {"reindex_all"}

\* C9 witness: a delete whose delete_document raised SearchError returned
\* normally.
C9_Witness ==
  \E p \in Procs :
    /\ pc[p] = "done"
    /\ args[p].op = "delete"
    /\ calls[p] = << Call("mongo", "delete", ""),
                     Call("cache", "delete", ""),
                     Call("search", "delete_document", "SearchError") >>
    /\ ret[p] = Ok(NoProduct)

(* ------------------------------- C10 ---------------------------------- *)

\* The write step of MongoRepository.update for an empty payload.
EmptyUpdateStep(p) ==
  pc[p] = "update_save" /\ pc'[p] # "update_save" /\ args[p].data = << >>

C10_EmptyUpdateStepWritesNothing ==
  \A p \in Procs :
    EmptyUpdateStep(p)
      => /\ mongo' = mongo
         /\ local'[p].product = mongo[args[p].id]
         /\ pc'[p] = "update_cache"

\* What an empty update returns is the stored Item.
C10_EmptyUpdateReturnsStored ==
  \A p \in Procs :
    (pc[p] = "done" /\ args[p].op = "update" /\ args[p].data = << >>
       /\ ret[p].status = "ok")
      => /\ args[p].id \in DOMAIN mongo
         /\ ret[p].value = mongo[args[p].id]

ProductFields ==
  {"id", "name", "description", "price", "stock", "category", "is_active",
   "created_at", "updated_at"}

\* The write step of MongoRepository.update, when it succeeds.
UpdateWriteStep(p) == pc[p] = "update_save" /\ pc'[p] = "update_cache"

\* What the write step makes of the stored Item: the payload's fields take the
\* payload's values, updated_at the time the call stamped, which is not before
\* the stored one, every other field and every other Item stays as stored.
UpdateWritesPayloadAndStamp(p) ==
  LET id == args[p].id
      data == args[p].data
  IN /\ DOMAIN mongo' = DOMAIN mongo
     /\ \A i \in DOMAIN mongo \ {id} : mongo'[i] = mongo[i]
     /\ \A f \in ProductFields :
          mongo'[id][f] = IF f \in DOMAIN data THEN data[f]
                          ELSE IF f = "updated_at" THEN local[p].found_at
                          ELSE mongo[id][f]
     /\ mongo'[id].updated_at >= mongo[id].updated_at
     /\ mongo'[id].updated_at <= now

C11_UpdateReturnsWritten ==
  \A p \in Procs :
    (pc[p] = "done" /\ args[p].op = "update" /\ ret[p].status = "ok")
      => /\ args[p].id \in DOMAIN mongo
         /\ ret[p].value = mongo[args[p].id]
         /\ \A f \in DOMAIN args[p].data : ret[p].value[f] = args[p].data[f]

PayloadFields == {"name", "description", "price", "stock", "category", "is_active"}

PayloadValue(raw, f) ==
  IF f \in DOMAIN raw THEN raw[f]
  ELSE CASE f = "description" -> NULL
         [] f = "stock" -> 0
         [] OTHER -> TRUE

\* The call in `done` is a get_by_id of the id that the previous call, a
\* create, returned.
GetAfterCreate(p) ==
  /\ DoneGet(p)
  /\ lastDone.op = "create"
  /\ lastDone.id = args[p].id

\* Such a read finds the Item (only a failure of the primary store itself can
\* make it raise), and the Item carries the payload's values.
C12_GetAfterCreateReturnsPayload ==
  \A p \in Procs :
    GetAfterCreate(p)
      => /\ ret[p].err \in {"", "DatabaseError"}
         /\ ret[p].status = "ok"
              => /\ ret[p].value = lastDone.value
                 /\ ret[p].value.id = args[p].id
                 /\ \A f \in PayloadFields :
                      ret[p].value[f] = PayloadValue(lastDone.data, f)

\* The identifier create assigns is non-empty and is the identifier of no Item
\* created before, stored or deleted since.
C12_CreateAssignsFreshId ==
  \A p \in Procs :
    (pc[p] = "create_insert" /\ pc'[p] = "create_index")
      => /\ local'[p].product.id \in Ids
         /\ serialize_id(local'[p].product.id) # serialize_id(NoProduct.id)
         /\ local'[p].product.id \notin DOMAIN mongo \cup DOMAIN deleted
         /\ \A q \in Procs : local[q].product.id # local'[p].product.id

\* C12: in non-overlapping calls, get_by_id(id) issued right after create
\* returned the Item with identifier id yields an Item whose fields equal those
\* of the payload (stock and is_active defaulted when omitted), and the
\* identifier is non-empty and differs from that of every Item created before.
C12_CreateThenGet ==
  []C12_GetAfterCreateReturnsPayload /\ [][C12_CreateAssignsFreshId]_vars

\* C12 witness: create of a payload without is_active, while Item 1 exists,
\* then get_by_id of the new id returned the payload's values and the default.
C12_Witness ==
  \E p \in Procs :
    /\ GetAfterCreate(p)
    /\ ret[p].status = "ok"
    /\ 1 \in DOMAIN mongo
    /\ ret[p].value.id = 2
    /\ ret[p].value.stock = 3
    /\ "is_active" \notin DOMAIN lastDone.data
    /\ ret[p].value.is_active = TRUE

(* ------------------------------- C13 ---------------------------------- *)

\* Number of Items in the primary store.
StoredCount == Cardinality(DOMAIN mongo) + bulk

\* A reindex_all that has returned its count.
ReindexReturned(p) ==
  pc[p] = "done" /\ args[p].op = "reindex_all" /\ ret[p].status = "ok"

\* Documents handed to the one bulk_index call of a reindex_all.
SubmittedCount(p) == Len(local[p].documents) + local[p].more

OneBulkIndexCall(p) ==
  /\ Len(calls[p]) = 2
  /\ calls[p][1] = Call("mongo", "list_all", "")
  /\ calls[p][2].repo = "search"
  /\ calls[p][2].method = "bulk_index"
  /\ calls[p][2].raised = ""

\* C13 (as stated): in non-overlapping calls and for any contents of the
\* primary store, reindex_all returns the number of Items in the store and
\* submits exactly that many documents in one bulk_index call.
C13_ReindexCountsEveryItem ==
  \A p \in Procs :
    ReindexReturned(p)
      => /\ ret[p].n = StoredCount
         /\ SubmittedCount(p) = StoredCount
         /\ OneBulkIndexCall(p)

\* C13 (amended): reindex_all returns the number of Items in the store or
\* 10000, whichever is smaller, and submits exactly that many documents, each
\* the projection of a different stored Item, in one bulk_index call.
C13_ReindexCountsUpToLimit ==
  \A p \in Procs :
    ReindexReturned(p)
      => /\ ret[p].n = (IF StoredCount <= ReindexLimit THEN StoredCount
                        ELSE ReindexLimit)
         /\ SubmittedCount(p) = ret[p].n
         /\ OneBulkIndexCall(p)
         /\ \A k \in 1..Len(local[p].documents) :
              \E i \in DOMAIN mongo : local[p].documents[k] = model_dump(mongo[i])
         /\ Cardinality({ local[p].documents[k].id :
                            k \in 1..Len(local[p].documents) })
              = Len(local[p].documents)

\* C13 witness: the store holds more than 10000 Items and reindex_all has
\* returned 10000.
C13_Witness ==
  \E p \in Procs :
    /\ ReindexReturned(p)
    /\ StoredCount > ReindexLimit
    /\ ret[p].n = ReindexLimit
    /\ local[p].documents # << >>

(* ------------------------------- C14 ---------------------------------- *)

\* A step taken by a reindex_all call: entering it, list_all, bulk_index.
ReindexStep(p) ==
  /\ pc'[p] # pc[p]
  /\ pc[p] \in {"reindex_list", "reindex_bulk"} \/ pc'[p] = "reindex_list"

\* The adapter calls of reindex_all are list_all on the primary store and
\* bulk_index on the search index, nothing else.
C14_ReindexCalls ==
  \A p \in Procs :
    args[p].op = "reindex_all"
      => \A k \in 1..Len(calls[p]) :
           \/ calls[p][k].repo = "mongo" /\ calls[p][k].method = "list_all"
           \/ calls[p][k].repo = "search" /\ calls[p][k].method = "bulk_index"

\* C14: reindex_all never calls the cache adapter and never writes to the
\* primary store: each of its steps, failing or not, leaves the cache and the
\* primary store as they are.
C14_ReindexLeavesCacheAndStore ==
  /\ [][\A p \in Procs :
          ReindexStep(p) => (cache' = cache /\ mongo' = mongo /\ nextId' = nextId
                               /\ bulk' = bulk)]_vars
  /\ []C14_ReindexCalls

\* C14 witness: a reindex_all has run to its end, with a failed bulk_index,
\* while the cache holds the entry of a stored Item.
C14_Witness ==
  \E p \in Procs :
    /\ pc[p] = "done"
    /\ args[p].op = "reindex_all"
    /\ ret[p] = Raised("SearchError")
    /\ _cache_key(1) \in DOMAIN cache
    /\ 1 \in DOMAIN mongo

(* ------------------------------- C15 ---------------------------------- *)

\* A step taken by a clear_cache call: entering it, a scan, a delete.
ClearStep(p) ==
  /\ pc'[p] # pc[p] \/ local'[p] # local[p]
  /\ pc[p] \in {"clear_scan", "clear_delete"} \/ pc'[p] = "clear_scan"

\* Once clear_cache has returned, no key under "product:" is left.
C15_NoProductKeyLeft ==
  \A p \in Procs :
    (pc[p] = "done" /\ args[p].op = "clear_cache" /\ ret[p].status = "ok")
      => \A i \in Ids : _cache_key(i) \notin DOMAIN cache

\* No step of clear_cache touches a key outside the prefix, the primary store
\* or the search index.
C15_ClearStepFrame ==
  \A p \in Procs :
    ClearStep(p)
      => /\ mongo' = mongo /\ bulk' = bulk /\ nextId' = nextId
         /\ search' = search
         /\ \A k \in DOMAIN cache :
              (\A i \in Ids : k # _cache_key(i))
                => (k \in DOMAIN cache' /\ cache'[k] = cache[k])

\* C15: with no call overlapping it, once clear_cache has completed no cache
\* key under the item prefix remains, every key outside the prefix keeps its
\* value, and the primary store and the search index are unchanged.
C15_ClearCacheClearsPrefixOnly ==
  []C15_NoProductKeyLeft /\ [][C15_ClearStepFrame]_vars

\* C15 witness: clear_cache has returned after deleting the entry of Item 1;
\* the counter is still there, and so are the Item and its search document.
C15_Witness ==
  \E p \in Procs :
    /\ pc[p] = "done"
    /\ args[p].op = "clear_cache"
    /\ ret[p].status = "ok"
    /\ local[p].keys = {_cache_key(1)}
    /\ _cache_key(1) \notin DOMAIN cache
    /\ CounterKey \in DOMAIN cache
    /\ cache[CounterKey] = CounterEntry
    /\ 1 \in DOMAIN mongo
    /\ Str("oid", 1) \in DOMAIN search

(* ------------------------------- C16 ---------------------------------- *)

\* The bulk_index call of a reindex_all has been made.
BulkIndexCalled(p) == args[p].op = "reindex_all" /\ Len(calls[p]) = 2

NoDocuments(p) == local[p].documents = << >> /\ local[p].more = 0

\* bulk_index makes one client request for a non-empty list and none for an
\* empty one; on the empty list it cannot fail and reindex_all returns 0.
C16_EmptyBulkSkipsClient ==
  \A p \in Procs :
    BulkIndexCalled(p)
      => /\ calls[p][2].client = (IF NoDocuments(p) THEN 0 ELSE 1)
         /\ NoDocuments(p) => ret[p] = OkCount(0)

\* list_all on an empty store yields no documents, and bulk_index of no
\* documents leaves the index as it is.
C16_EmptySteps ==
  \A p \in Procs :
    /\ (pc[p] = "reindex_list" /\ pc'[p] = "reindex_bulk" /\ StoredCount = 0)
         => (local'[p].documents = << >> /\ local'[p].more = 0)
    /\ (pc[p] = "reindex_bulk" /\ pc'[p] = "done" /\ NoDocuments(p))
         => search' = search

\* C16: bulk_index([]) is a no-op that never invokes the search client, so
\* reindex_all on an empty primary store returns 0 and leaves the search index
\* unchanged without any search-client call.
C16_EmptyBulkIndexIsNoOp == []C16_EmptyBulkSkipsClient /\ [][C16_EmptySteps]_vars

\* C16 witness: the primary store is empty, the index still holds a document,
\* and reindex_all has returned 0 without a client request.
C16_Witness ==
  \E p \in Procs :
    /\ BulkIndexCalled(p)
    /\ NoDocuments(p)
    /\ StoredCount = 0
    /\ search # << >>
    /\ calls[p][2] = CallNoClient("search", "bulk_index")
    /\ ret[p] = OkCount(0)

(* ------------------------------- C17 ---------------------------------- *)

\* The get_by_id step of MongoRepository.get_by_id / update / delete.
LookupStep(p) ==
  pc[p] \in {"get_mongo", "update_find", "delete_find"} /\ pc'[p] # pc[p]

\* The lookup of an absent identifier ends the call with NotFoundError, unless
\* the client itself failed, and leaves the store as it is.
C17_AbsentLookup ==
  \A p \in Procs :
    (LookupStep(p) /\ args[p].id \notin DOMAIN mongo)
      => /\ pc'[p] = "done"
         /\ mongo' = mongo
         /\ LET c == calls'[p][Len(calls'[p])] IN
            /\ c.repo = "mongo"
            /\ c.wraps # "ClientError" => (c.raised = "NotFoundError" /\ c.wraps = "")
            /\ ret'[p] = Raised(c.raised)

\* NotFoundError comes from the lookup of an absent identifier only.
C17_NotFoundOnlyWhenAbsent ==
  \A p \in Procs :
    (pc[p] # "done" /\ pc'[p] = "done" /\ ret'[p].err = "NotFoundError")
      => (LookupStep(p) /\ args[p].id \notin DOMAIN mongo)

\* update and delete write only after their lookup found the Item.
C17_WriteAfterLookup ==
  \A p \in Procs :
    pc[p] \in {"update_save", "delete_remove"}
      => (local[p].product.id = args[p].id /\ calls[p] = << >>)

DomainErrors(repo) ==
  CASE repo = "cache" -> {"CacheError"}
    [] repo = "search" -> {"SearchError"}
    [] repo = "mongo" -> {"DatabaseError", "NotFoundError"}

\* Every adapter call made so far returned or raised an error of its adapter;
\* an error made from another exception is never that exception itself.
C18_LoggedCalls ==
  \A p \in Procs :
    \A i \in 1..Len(calls[p]) :
      LET c == calls[p][i] IN
      /\ c.repo \in {"cache", "search", "mongo"}
      /\ c.raised \in DomainErrors(c.repo) \cup {""}
      /\ c.wraps # "" => (c.raised \in DomainErrors(c.repo) /\ c.raised # c.wraps)

\* A cache get of a key that is not there, the client answering, returns None
\* and the read goes on to the primary store.
C18_AbsentKeyIsNone ==
  \A p \in Procs :
    (/\ pc[p] = "get_cache" /\ pc'[p] # "get_cache"
     /\ _cache_key(args[p].id) \notin LiveKeys
     /\ calls'[p][Len(calls'[p])].wraps = "")
      => /\ calls'[p][Len(calls'[p])].raised = ""
         /\ pc'[p] = "get_mongo"
         /\ ret'[p] = Pending

CategoryQueryStep(p) ==
  /\ pc[p] = "search_query" /\ pc'[p] = "done"
  /\ args[p].op = "search_by_category"
  /\ ret'[p].status = "ok"

\* Category strings that differ in case only, and one that differs otherwise.
CategoryStrings == {"Tools", "TOOLS", "tools", "Widget"}

\* The indexed documents whose category lowercases to lowercase(c): those of
\* the products addressed by id, and the number of the others.
SameCategory(c) ==
  { search[k] : k \in { j \in DOMAIN search : Lower(search[j].category) = Lower(c) } }

SameCategoryMore(c) ==
  IF Lower(FurtherDocument.category) = Lower(c) THEN indexedMore ELSE 0

UpdateLandsOn(p, id) ==
  /\ UpdateWriteStep(p)
  /\ args[p].id = id
  /\ id \in DOMAIN mongo /\ id \in DOMAIN mongo'

\* Every stored Item carries its own identifier and was not updated before it
\* was created.
StampsInOrder ==
  \A id \in DOMAIN mongo :
    mongo[id].id = id /\ mongo[id].updated_at >= mongo[id].created_at

\* C20: across any sequence and any interleaving of update calls on an Item,
\* its identifier and its created_at never change, and its updated_at as
\* stored in the primary store never decreases and is never earlier than
\* created_at.
C20_UpdateStampsMonotonic ==
  /\ [][\A p \in Procs : \A id \in Ids :
          UpdateLandsOn(p, id)
            => /\ mongo'[id].id = mongo[id].id
               /\ mongo'[id].created_at = mongo[id].created_at
               /\ mongo'[id].updated_at >= mongo[id].updated_at]_vars
  /\ []StampsInOrder

(* ------------------------------- C21 ---------------------------------- *)

\* C21: after any sequence of create and update calls with payloads that
\* ProductCreate / ProductUpdate accept, an explicit null in an update
\* included, every Item in the primary store has a non-null non-empty name and
\* category, a price greater than 0, a stock of at least 0 and a non-null
\* active flag.
C21_StoredItemsKeepRequiredFields ==
  \A id \in DOMAIN mongo :
    /\ mongo[id].name \notin {NULL, ""}
    /\ mongo[id].category \notin {NULL, ""}
    /\ mongo[id].price > 0
    /\ mongo[id].stock >= 0
    /\ mongo[id].is_active \in BOOLEAN

(* ------------------------------- C22 ---------------------------------- *)

\* The cache holds, for id, a snapshot that differs from the stored Item.
StaleEntry(id) ==
  /\ _cache_key(id) \in LiveKeys
  /\ id \in DOMAIN mongo
  /\ ProductFromCached(cache[_cache_key(id)].val) # mongo[id]

\* Every product entry, stale or not, is gone DefaultTTL seconds after it was
\* set at the latest: redis holds no expired entry and no entry that expires
\* later than DefaultTTL from now.
C22_EntriesExpireWithinTTL ==
  \A id \in Ids :
    _cache_key(id) \in DOMAIN cache
      => /\ cache[_cache_key(id)].exp > now
         /\ cache[_cache_key(id)].exp <= now + DefaultTTL

\* A get_by_id that finds no live entry goes to the primary store, and what it
\* takes from there, and later returns, is the Item as stored at that moment.
C22_MissReadsStore ==
  \A p \in Procs :
    /\ (pc[p] = "get_cache" /\ pc'[p] # "get_cache"
          /\ _cache_key(args[p].id) \notin LiveKeys)
         => (pc'[p] = "get_mongo" /\ ret'[p] = Pending)
    /\ (pc[p] = "get_mongo" /\ pc'[p] = "get_set")
         => local'[p].product = mongo[args[p].id]
    /\ (pc[p] = "get_set" /\ pc'[p] = "done")
         => ret'[p] = Ok(local[p].product)

\* C22: a get_by_id on its cache-miss path that interleaves with an update of
\* the same id can leave the pre-update snapshot in the cache after both have
\* completed; such an entry exists only until its TTL expires, and a
\* get_by_id that finds the entry expired returns the Item of the primary
\* store.
C22_StaleEntryBoundedByTTL ==
  []C22_EntriesExpireWithinTTL /\ [][C22_MissReadsStore]_vars

\* C22 witness: get_by_id(1) missed the cache and read Item 1, update(1, ...)
\* then wrote and invalidated, the read then set its snapshot; both calls have
\* completed and the cache holds the pre-update Item.
C22_Witness ==
  \E p, q \in Procs :
    /\ pc[p] = "done" /\ args[p].op = "get_by_id" /\ args[p].id = 1
    /\ pc[q] = "done" /\ args[q].op = "update" /\ args[q].id = 1
    /\ ret[p] = Ok(SeedProduct)
    /\ ret[q].status = "ok" /\ ret[q].value # SeedProduct
    /\ calls[p] = << Call("cache", "get", ""), Call("mongo", "get_by_id", ""),
                     Call("cache", "set", "") >>
    /\ calls[q][2] = Call("cache", "delete", "")
    /\ StaleEntry(1)
    /\ ProductFromCached(cache[_cache_key(1)].val) = SeedProduct
    /\ mongo[1] = ret[q].value

(* ------------------------------- C23 ---------------------------------- *)

\* get_by_id returns from its cache step: a hit.
CacheHitStep(p) == pc[p] = "get_cache" /\ pc'[p] = "done"

\* A hit leaves the cache as it is, and the cache get is its only adapter call.
C23_HitWritesNothing ==
  \A p \in Procs :
    CacheHitStep(p)
      => /\ cache' = cache
         /\ calls'[p] = << Call("cache", "get", "") >>

\* The expiry of an entry that stays in the cache moves only when the cache
\* set of a cache-miss read writes the entry anew.
C23_ExpiryMovesOnlyOnSet ==
  \A k \in DOMAIN cache \cap DOMAIN cache' :
    cache'[k].exp # cache[k].exp
      => \E p \in Procs :
           /\ pc[p] = "get_set" /\ pc'[p] = "done"
           /\ k = _cache_key(args[p].id)
           /\ cache'[k].exp = now + DefaultTTL

\* An entry is absent once its expiry time has come.
C23_AbsentAtExpiry ==
  \A k \in DOMAIN cache : cache[k].exp > now

\* C23: a cache hit in get_by_id performs no cache write, so reads never extend
\* an entry's lifetime: an entry populated at time t is absent by t + TTL
\* unless a later cache-miss read repopulates it, however many get_by_id hits
\* there are on that key.
C23_HitsDoNotExtendLifetime ==
  /\ [][C23_HitWritesNothing /\ C23_ExpiryMovesOnlyOnSet]_vars
  /\ []C23_AbsentAtExpiry

\* C23 witness: the entry of Item 1 was populated at time 0, time has passed,
\* a get_by_id(1) has hit it, and it still expires at DefaultTTL.
C23_Witness ==
  \E p \in Procs :
    /\ pc[p] = "done" /\ args[p].op = "get_by_id" /\ args[p].id = 1
    /\ calls[p] = << Call("cache", "get", "") >>
    /\ ret[p] = Ok(SeedProduct)
    /\ now > 0
    /\ _cache_key(1) \in DOMAIN cache
    /\ cache[_cache_key(1)].exp = DefaultTTL

(* ------------------------------- C24 ---------------------------------- *)

\* The process stopped in an update or delete of id, after the primary-store
\* write and before the cache step, and no call has returned since.
StoppedAfterWrite(id) ==
  lastDone.op \in {"update_stopped", "delete_stopped"} /\ lastDone.id = id

\* Every stored Item has its projection as search document, and every search
\* document is that of a stored Item.
SearchAgreesWithStore ==
  /\ \A id \in DOMAIN mongo :
       /\ Str("oid", id) \in DOMAIN search
       /\ search[Str("oid", id)] = model_dump(mongo[id])
  /\ \A k \in DOMAIN search : k[2] \in DOMAIN mongo

\* C24: if the process stops after the primary-store write of update or
\* delete and before the cache and search steps, the next get_by_id(id)
\* returns the primary store's current state for id (the Item, or
\* NotFoundError once deleted), and the next successful reindex_all makes the
\* search documents agree with the primary store.
C24_SecondariesCatchUpAfterStop ==
  \A p \in Procs :
    /\ (DoneGet(p) /\ StoppedAfterWrite(args[p].id) /\ ret[p].err # "DatabaseError")
         => IF args[p].id \in DOMAIN mongo
            THEN ret[p] = Ok(mongo[args[p].id])
            ELSE ret[p] = Raised("NotFoundError")
    /\ (ReindexReturned(p) /\ \E id \in Ids : StoppedAfterWrite(id))
         => SearchAgreesWithStore

(* ------------------------------- C25 ---------------------------------- *)

\* C25: after reindex_all has completed successfully with no write overlapping
\* it, every Item in the primary store has a search document equal to its
\* projection, and the index holds no document for an identifier that is
\* absent from the primary store, identifiers whose search delete step failed
\* earlier included.
C25_ReindexConvergesIndex ==
  \A p \in Procs :
    ReindexReturned(p)
      => /\ \A id \in DOMAIN mongo :
              /\ Str("oid", id) \in DOMAIN search
              /\ search[Str("oid", id)] = model_dump(mongo[id])
         /\ \A id \in Ids :
              id \notin DOMAIN mongo => Str("oid", id) \notin DOMAIN search

(* ------------------------------- C26 ---------------------------------- *)

\* A call reaches its end in this step.
CompletingStep(p) == pc[p] \notin {"idle", "done"} /\ pc'[p] = "done"

\* What the completing step of a call other than a search query returns, told
\* from the primary store, the cache, the call's locals and the outcome of its
\* last adapter call, without a look at the index.
ResultIgnoringIndex(p) ==
  LET last == calls'[p][Len(calls'[p])]
      key == _cache_key(args[p].id)
  IN CASE pc[p] = "get_cache" ->
            IF ValidProduct(ProductFromCached(cache[key].val))
            THEN Ok(ProductFromCached(cache[key].val))
            ELSE Raised("ValidationError")
       [] pc[p] \in {"create_index", "get_set", "update_index"} ->
            Ok(local[p].product)
       [] pc[p] = "delete_search" -> Ok(NoProduct)
       [] pc[p] = "reindex_bulk" ->
            IF last.raised # "" THEN Raised(last.raised)
            ELSE OkCount(SubmittedCount(p))
       [] pc[p] \in {"clear_scan", "clear_delete"} ->
            IF last.raised # "" THEN Raised(last.raised) ELSE Ok(NoProduct)
       [] OTHER -> Raised(last.raised)

C26_NonQueryResultIgnoresIndex ==
  \A p \in Procs :
    (CompletingStep(p) /\ args[p].op \notin SearchOps)
      => /\ ret'[p] = ResultIgnoringIndex(p)
         /\ ret'[p].status = "raised"
              => /\ calls'[p][Len(calls'[p])].raised = ret'[p].err
                 /\ \/ calls'[p][Len(calls'[p])].repo # "search"
                    \/ calls'[p][Len(calls'[p])].wraps = "ClientError"

\* What a query returns from an index holding docs.
QueryOver(docs, op, data) ==
  CASE op = "search" ->
         { d \in docs : FuzzyEq(data, d.name) \/ FuzzyEq(data, d.description)
                          \/ FuzzyEq(data, d.category) }
    [] op = "search_by_category" ->
         { d \in docs : Lower(d.category) = Lower(data) }
    [] OTHER -> { d \in docs : data[1] <= d.price /\ d.price <= data[2] }

\* Index contents that go with the same primary store and cache: every
\* document pending, and every document indexed.
AlternativeIndexes ==
  { {}, { model_dump(mongo[id]) : id \in DOMAIN mongo } }

C26_QueryResultIgnoresIndex ==
  \A p \in Procs :
    (CompletingStep(p) /\ args[p].op \in SearchOps /\ ret'[p].status = "ok")
      => \A docs \in AlternativeIndexes :
           ret'[p].hits = QueryOver(docs, args[p].op, args[p].data)

\* C26 (as stated): two system states that differ only in the contents of the
\* search index give the same result for every Catalog Service operation, the
\* search queries included.
C26_NoResultDependsOnIndex ==
  [][C26_NonQueryResultIgnoresIndex /\ C26_QueryResultIgnoresIndex]_vars

\* C26 (amended): two system states that differ only in the contents of the
\* search index give the same result for every Catalog Service operation
\* other than search, search_by_category and search_by_price_range, whose
\* results are read from the index.
C26_NonQueryResultsDoNotDependOnIndex ==
  [][C26_NonQueryResultIgnoresIndex]_vars

\* C26 witness: a delete of a stored Item whose search document was pending
\* (delete_document found nothing to delete) has returned normally.
C26_Witness ==
  \E p \in Procs :
    /\ pc[p] = "done" /\ args[p].op = "delete"
    /\ calls[p] = << Call("mongo", "delete", ""), Call("cache", "delete", ""),
                     Call("search", "delete_document", "SearchError") >>
    /\ args[p].id \notin DOMAIN mongo
    /\ Str("oid", args[p].id) \notin DOMAIN search
    /\ ret[p] = Ok(NoProduct)

(* ------------------------------- C27 ---------------------------------- *)

\* The write step of an update never adds an identifier to the primary store.
C27_UpdateNeverInserts ==
  \A p \in Procs :
    (pc[p] = "update_save" /\ pc'[p] # "update_save")
      => DOMAIN mongo' \subseteq DOMAIN mongo

\* Once an update and a successful delete of the same identifier have both
\* completed, the Item is absent.
C27_AbsentAfterUpdateAndDelete ==
  \A p, q \in Procs :
    (/\ pc[p] = "done" /\ args[p].op = "update"
     /\ pc[q] = "done" /\ args[q].op = "delete" /\ ret[q].status = "ok"
     /\ args[p].id = args[q].id)
      => args[p].id \notin DOMAIN mongo

\* C27: an identifier is in the primary store exactly from the completion of
\* its create until the completion of its delete: update never inserts an
\* Item, so when an update and a delete of the same identifier interleave, the
\* update's existence check before the delete and its write after it, the Item
\* is absent from the primary store once both have completed.
C27_DeletedItemStaysAbsent ==
  [][C27_UpdateNeverInserts]_vars /\ []C27_AbsentAfterUpdateAndDelete

(* ------------------------------- C28 ---------------------------------- *)

ItemOps == {"get_by_id", "update", "delete"}

\* C28: in the get, update and delete item routes, a NotFoundError raised by
\* the service becomes a 404 response, and any other error raised by the
\* service becomes neither a success nor a 404 response: it leaves the route as
\* it is.
C28_RoutesTranslateNotFoundOnly ==
  \A p \in Procs :
    (pc[p] = "done" /\ args[p].op \in ItemOps /\ ret[p].status = "raised")
      => LET response == ItemRoute(args[p].op, ret[p]) IN
         IF ret[p].err = "NotFoundError"
         THEN response = Responds(HTTP_404_NOT_FOUND)
         ELSE /\ response.code \notin {HTTP_200_OK, HTTP_204_NO_CONTENT,
                                        HTTP_404_NOT_FOUND}
              /\ response.raised = ret[p].err

\* C28 witness: an update of an absent identifier ended in NotFoundError and
\* its route answers 404, while a delete that failed in the primary store with
\* DatabaseError leaves its route with that error.
C28_Witness ==
  \E p, q \in Procs :
    /\ pc[p] = "done" /\ args[p].op = "update"
    /\ ret[p] = Raised("NotFoundError")
    /\ ItemRoute(args[p].op, ret[p]).code = HTTP_404_NOT_FOUND
    /\ pc[q] = "done" /\ args[q].op = "delete"
    /\ ret[q] = Raised("DatabaseError")
    /\ ItemRoute(args[q].op, ret[q]) = Unhandled("DatabaseError")

(* ------------------------------- C29 ---------------------------------- *)

CoreOps == {"create", "get_by_id", "update", "delete"}

\* The adapter method a logged call went to.
AdapterMethod(c) == << c.repo, c.method >>

\* No adapter method appears twice in the calls made by the invocation of p.
InvokedAtMostOnce(p) ==
  \A i, j \in DOMAIN calls[p] :
    i # j => AdapterMethod(calls[p][i]) # AdapterMethod(calls[p][j])

\* C29: within one invocation of create, get_by_id, update or delete, each
\* adapter method is invoked at most once, whether the call returned or raised:
\* nothing is retried.
C29_NoAdapterCallRetried ==
  \A p \in Procs : args[p].op \in CoreOps => InvokedAtMostOnce(p)

\* C29 witness: a get_by_id that ran to its end made three adapter calls, the
\* cache read and the cache write both failed, and each was made once.
C29_Witness ==
  \E p \in Procs :
    /\ pc[p] = "done" /\ args[p].op = "get_by_id"
    /\ Len(calls[p]) = 3
    /\ AdapterMethod(calls[p][1]) = << "cache", "get" >>
    /\ calls[p][1].raised = "CacheError"
    /\ AdapterMethod(calls[p][2]) = << "mongo", "get_by_id" >>
    /\ AdapterMethod(calls[p][3]) = << "cache", "set" >>
    /\ calls[p][3].raised = "CacheError"
    /\ InvokedAtMostOnce(p)

(* ------------------------------- C30 ---------------------------------- *)

\* Call p is inside the loop of delete_pattern.
InDeletePattern(p) == pc[p] \in {"clear_scan", "clear_delete"}

\* The event loop resumes a coroutine once the client call it awaits is over:
\* a scan or a delete that is under way comes back, with a result or an error.
ClearFairness ==
  \A p \in Procs : /\ WF_<< pc, local >>(ClearScan(p))
                   /\ WF_<< pc, local >>(ClearDelete(p))

\* A second product, as create() at time 0 leaves it.
SecondProduct ==
  NewProduct(2, [name |-> "Gadget", description |-> "d", price |-> 2499,
                 stock |-> 3, category |-> "tools", is_active |-> TRUE], 0)

\* The cache entry a get_by_id(2) that missed at time 0 leaves behind.
SecondEntry ==
  [val |-> json_dumps(model_dump(SecondProduct)), exp |-> DefaultTTL]

\* Two create() and two get_by_id() calls have completed: both products are
\* stored, indexed and cached, next to the counter.
TwoCachedInit ==
  /\ mongo = Put(Put(<< >>, 1, SeedProduct), 2, SecondProduct)
  /\ search = IndexDocument(
                IndexDocument(<< >>, Str("oid", 1), model_dump(SeedProduct)),
                Str("oid", 2), model_dump(SecondProduct))
  /\ cache = Put(Put(Put(<< >>, _cache_key(1), SeedEntry),
                     _cache_key(2), SecondEntry),
                 CounterKey, CounterEntry)
  /\ nextId = 3
  /\ lastDone = [op |-> "get_by_id", id |-> 2, data |-> << >>,
                 value |-> SecondProduct, cacheOk |-> TRUE, exp |-> DefaultTTL]
  /\ now = 0
  /\ ticks = 0
  /\ opsLeft = MaxBudget
  /\ pc = [p \in Procs |-> "idle"]
  /\ args = [p \in Procs |-> NoCall]
  /\ local = [p \in Procs |-> NoLocals]
  /\ ret = [p \in Procs |-> Pending]
  /\ calls = [p \in Procs |-> << >>]
  /\ deleted = << >>
  /\ indexExists = TRUE
  /\ request_context = [p \in Procs |-> NoContext]
  /\ bulk = 0
  /\ indexedMore = 0

ClearInit == Init \/ TwoCachedInit

\* Reads that fill the cache and clear_cache calls that empty it, overlapping.
ClearNext ==
  \/ \E p \in Procs : StartGet(p)
  \/ \E p \in Procs : GetCache(p)
  \/ \E p \in Procs : GetMongo(p)
  \/ \E p \in Procs : GetSet(p)
  \/ \E p \in Procs : StartClearCache(p)
  \/ \E p \in Procs : ClearScan(p)
  \/ \E p \in Procs : ClearDelete(p)
  \/ \E p \in Procs : Return(p)
  \/ Tick

\* Those calls, each awaited client call of delete_pattern coming back.
ClearFairSpec == ClearInit /\ [][ClearNext]_vars /\ ClearFairness

\* delete_pattern went past its await without an exception.
CameBack(p) ==
  /\ \/ pc'[p] # pc[p]
     \/ local'[p].cursor # local[p].cursor
     \/ local'[p].keys # local[p].keys
  /\ ~ (pc'[p] = "done" /\ ret'[p].status = "raised")

\* After a batch: `if cursor == 0: break`, else the next scan.
StopsOnlyAtZero(p) ==
  IF local'[p].cursor = 0
  THEN pc'[p] = "done" /\ ret'[p].status = "ok"
  ELSE pc'[p] = "clear_scan"

\* A step of delete_pattern in call p, as the claim describes it.
DeletePatternStep(p) ==
  /\ (pc[p] = "idle" /\ pc'[p] = "clear_scan") => local'[p].cursor = 0
  /\ (pc[p] = "clear_scan" /\ CameBack(p)) =>
       /\ \A k \in local'[p].keys : MatchesPattern(k) /\ Slot(k) > local[p].cursor
       /\ IF local'[p].keys # {}
          THEN pc'[p] = "clear_delete"
          ELSE StopsOnlyAtZero(p) /\ cache' = cache
  /\ (pc[p] = "clear_delete" /\ CameBack(p)) =>
       /\ local'[p].cursor = local[p].cursor
       /\ local[p].keys \cap DOMAIN cache' = {}
       /\ DOMAIN cache \ DOMAIN cache' \subseteq local[p].keys
       /\ StopsOnlyAtZero(p)

\* delete_pattern returns only after a scan that returned cursor 0.
ReturnsAtZero ==
  \A p \in Procs :
    (args[p].op = "clear_cache" /\ pc[p] = "done" /\ ret[p].status = "ok")
      => local[p].cursor = 0

\* C30: delete_pattern scans from cursor 0, each scan continuing from the
\* cursor the previous one returned; it deletes the keys of each non-empty
\* batch and of no empty one, goes on while the cursor returned is not 0 and
\* stops when it is 0; with a store whose cursor comes back to 0 and client
\* calls that come back, delete_pattern comes to an end.
C30_DeletePatternScansToCursorZero ==
  /\ [][\A p \in Procs : DeletePatternStep(p)]_<< pc, local, ret, cache >>
  /\ []ReturnsAtZero
  /\ \A p \in Procs : InDeletePattern(p) ~> (pc[p] = "done")

\* C30 witness: delete_pattern deleted a non-empty batch after a scan that
\* returned a cursor other than 0, and is about to scan on from that cursor.
C30_Witness ==
  \E p \in Procs :
    /\ pc[p] = "clear_scan"
    /\ local[p].cursor # 0
    /\ local[p].keys # {}
    /\ local[p].keys \cap DOMAIN cache = {}

(* ------------------------------- C31 ---------------------------------- *)

\* Keys under the pattern that the cache holds and redis would still return.
MatchingLiveKeys == { k \in LiveKeys : MatchesPattern(k) }

\* clear_cache call p came to its end without an exception.
ClearedOk(p) ==
  args[p].op = "clear_cache" /\ pc[p] = "done" /\ ret[p].status = "ok"

\* A matching key left at the step with which delete_pattern returns was set
\* while it ran.
OnlyRacedKeysRemain ==
  \A p \in Procs :
    (InDeletePattern(p) /\ ClearedOk(p)')
      => MatchingLiveKeys' \subseteq local'[p].raced

\* An exception of delete_pattern is one its client raised: a set that got in
\* between leaves the deletion of the batch free to succeed.
RaceRaisesNothing ==
  \A p \in Procs :
    /\ (args[p].op = "clear_cache" /\ pc[p] = "done" /\ ret[p].status = "raised")
         => calls[p][Len(calls[p])].wraps = "ClientError"
    /\ pc[p] = "clear_delete"
         => ENABLED (ClearDelete(p) /\ ret'[p].status # "raised")

\* A step of delete_pattern removes keys of its pattern only.
DeletesWithinPattern ==
  \A p \in Procs :
    (InDeletePattern(p) /\ CameBack(p))
      => \A k \in DOMAIN cache \ DOMAIN cache' : MatchesPattern(k)

\* C31: delete_pattern running together with set calls on keys of its pattern
\* raises no error because of them; a matching key present at its start and
\* not set again meanwhile is absent at its end, so the only matching keys left
\* are ones a racing set wrote; and no key outside the pattern is deleted.
C31_DeletePatternSafeWithRacingSets ==
  /\ []RaceRaisesNothing
  /\ [][OnlyRacedKeysRemain /\ DeletesWithinPattern]_<< pc, local, ret, cache >>

\* C31 witness: a clear_cache came to its end while a key of the pattern, set
\* by an overlapping get_by_id during the scan, is still in the cache, and a
\* key outside the pattern is untouched.
C31_Witness ==
  \E p \in Procs :
    /\ ClearedOk(p)
    /\ local[p].raced # {}
    /\ MatchingLiveKeys # {}
    /\ MatchingLiveKeys \subseteq local[p].raced
    /\ CounterKey \in DOMAIN cache

(* ------------------------------- C32 ---------------------------------- *)

\* Call p of create_index gets the answer of its existence check.
ExistsAnswered(p) == pc[p] = "index_exists" /\ pc'[p] # "index_exists"

\* The last request call p made to the search client.
LastRequest(p) == calls'[p][Len(calls'[p])]

\* A create_index call that finds the index there asks for nothing more and
\* returns; it raises only when the existence request itself failed.
ExistingIndexLeftAlone(p) ==
  (ExistsAnswered(p) /\ indexExists)
    => /\ pc'[p] = "done"
       /\ Len(calls'[p]) = 1
       /\ LastRequest(p).method = "indices.exists"
       /\ ret'[p].status = "raised" => LastRequest(p).raised = "ClientError"
       /\ LastRequest(p).raised = "" => ret'[p] = Ok(NoProduct)

\* A step of a create_index call changes no document and no other store.
CreateIndexFrame(p) ==
  (pc[p] \in {"index_exists", "index_create"} /\ pc'[p] # pc[p])
    => /\ search' = search /\ mongo' = mongo /\ cache' = cache
       /\ indexExists => indexExists'

\* The index, once there, is neither created again nor lost; it comes into
\* being only through a create request made while it was absent.
CreatedAtMostOnce ==
  /\ indexExists => indexExists'
  /\ (~ indexExists /\ indexExists') => \E p \in Procs : pc[p] = "index_create"

\* C32: create_index checks existence before creating: whatever the number of
\* calls the index is created at most once, and a call made when the index
\* exists issues no create request, raises no error of its own and leaves the
\* index and its documents as they are.
C32_CreateIndexIdempotent ==
  [][/\ CreatedAtMostOnce
     /\ \A p \in Procs : ExistingIndexLeftAlone(p) /\ CreateIndexFrame(p)]_vars

\* C32 witness: one create_index call created the index, another one, made
\* with the index there, returned after its existence check alone.
C32_Witness ==
  \E p, q \in Procs :
    /\ p # q /\ indexExists
    /\ pc[p] = "done" /\ args[p].op = "create_index" /\ ret[p] = Ok(NoProduct)
    /\ Len(calls[p]) = 2 /\ calls[p][2].method = "indices.create"
    /\ pc[q] = "done" /\ args[q].op = "create_index" /\ ret[q] = Ok(NoProduct)
    /\ Len(calls[q]) = 1 /\ calls[q][1].method = "indices.exists"

(* ------------------------------- C33 ---------------------------------- *)

\* A step of create call p past one of its awaits.
CreateStep(p) ==
  pc[p] \in {"create_insert", "create_index"} /\ pc'[p] # pc[p]

\* create touches the cache with no call and no effect.
CreateLeavesCache(p) ==
  CreateStep(p)
    => /\ cache' = cache
       /\ \A i \in DOMAIN calls'[p] : calls'[p][i].repo # "cache"

\* As create returns its product: stored, indexed unless index_document
\* failed, and not cached.
CreatedState(p) ==
  (CreateStep(p) /\ pc'[p] = "done" /\ ret'[p].status = "ok")
    => LET id == ret'[p].value.id IN
       /\ id \in DOMAIN mongo' /\ mongo'[id] = ret'[p].value
       /\ _cache_key(id) \notin DOMAIN cache'
       /\ calls'[p][Len(calls'[p])].raised = ""
            => Str("oid", id) \in DOMAIN search'

\* The get_by_id that follows the create of its identifier misses the cache
\* and goes to the primary store.
FirstReadMisses(p) ==
  (/\ pc[p] = "get_cache" /\ pc'[p] # "get_cache"
   /\ lastDone.op = "create" /\ lastDone.id = args[p].id)
    => pc'[p] = "get_mongo"

\* C33: create neither reads nor writes the cache; when it returns an Item the
\* primary store holds it, the search index holds it unless the indexing
\* failed, the cache holds no entry for its identifier, and the first
\* get_by_id for it takes the cache-miss path.
C33_CreateLeavesCacheAbsent ==
  [][\A p \in Procs : /\ CreateLeavesCache(p)
                      /\ CreatedState(p)
                      /\ FirstReadMisses(p)]_vars

\* C33 witness: the product of the create that returned last was read by a
\* get_by_id that missed the cache, found it in the primary store and is about
\* to cache it.
C33_Witness ==
  \E p \in Procs :
    /\ lastDone.op = "create"
    /\ args[p].op = "get_by_id" /\ args[p].id = lastDone.id
    /\ pc[p] = "get_set"
    /\ local[p].product = lastDone.value
    /\ _cache_key(lastDone.id) \notin DOMAIN cache

(* ------------------------------- C34 ---------------------------------- *)

\* No call to the cache adapter has raised in the step taken.
CacheCallsSucceed ==
  \A p \in Procs :
    \A i \in DOMAIN calls'[p] :
      calls'[p][i].repo = "cache" => calls'[p][i].raised = ""

\* Calls one at a time, the cache adapter answering every call.
CoherentNext ==
  \/ \E p \in Procs : InFlight = {} /\ StartCreate(p)
  \/ \E p \in Procs : CreateInsert(p)
  \/ \E p \in Procs : CreateIndex(p)
  \/ \E p \in Procs : InFlight = {} /\ StartGet(p)
  \/ \E p \in Procs : GetCache(p) /\ CacheCallsSucceed
  \/ \E p \in Procs : GetMongo(p)
  \/ \E p \in Procs : GetSet(p) /\ CacheCallsSucceed
  \/ \E p \in Procs : InFlight = {} /\ StartUpdate(p)
  \/ \E p \in Procs : UpdateFind(p)
  \/ \E p \in Procs : UpdateSave(p)
  \/ \E p \in Procs : UpdateCache(p) /\ CacheCallsSucceed
  \/ \E p \in Procs : UpdateIndex(p)
  \/ \E p \in Procs : InFlight = {} /\ StartDelete(p)
  \/ \E p \in Procs : DeleteFind(p)
  \/ \E p \in Procs : DeleteRemove(p)
  \/ \E p \in Procs : DeleteCache(p) /\ CacheCallsSucceed
  \/ \E p \in Procs : DeleteSearch(p)
  \/ \E p \in Procs : InFlight = {} /\ StartReindex(p)
  \/ \E p \in Procs : ReindexList(p)
  \/ \E p \in Procs : ReindexBulk(p)
  \/ \E p \in Procs : InFlight = {} /\ StartClearCache(p)
  \/ \E p \in Procs : ClearScan(p) /\ CacheCallsSucceed
  \/ \E p \in Procs : ClearDelete(p) /\ CacheCallsSucceed
  \/ \E p \in Procs : Return(p)
  \/ Tick

CoherentSpec == Init /\ [][CoherentNext]_vars

\* No call is between its primary-store write and its cache invalidation.
BetweenCalls == \A p \in Procs : pc[p] \in {"idle", "done"}

\* The live cache entry of id, if any, is the snapshot of the stored product.
EntryCoherent(id) ==
  _cache_key(id) \in LiveKeys
    => /\ id \in DOMAIN mongo
       /\ ProductFromCached(cache[_cache_key(id)].val) = mongo[id]

\* C34: with calls one at a time and no cache adapter call failing, between
\* calls every cache entry of an identifier equals the primary store's current
\* Item for it, and no identifier absent from the primary store has an entry.
C34_CacheCoherentBetweenCalls ==
  BetweenCalls => \A id \in Ids : EntryCoherent(id)

\* C34 witness: after an update and a later get_by_id, the cache holds the
\* updated product, the same as the primary store.
C34_Witness ==
  \E id \in Ids :
    /\ BetweenCalls
    /\ _cache_key(id) \in LiveKeys
    /\ id \in DOMAIN mongo
    /\ ProductFromCached(cache[_cache_key(id)].val) = mongo[id]
    /\ mongo[id].updated_at > mongo[id].created_at

(* ------------------------------- C35 ---------------------------------- *)

\* Every adapter call of call p returned normally.
AllCallsOk(p) == \A i \in DOMAIN calls[p] : calls[p][i].raised = ""

\* Two update calls on id have both completed, overlapping or not, with no
\* adapter failure.
BothUpdated(id) ==
  \A p \in Procs :
    /\ pc[p] = "done" /\ args[p].op = "update" /\ args[p].id = id
    /\ ret[p].status = "ok" /\ AllCallsOk(p)

\* C35: once two concurrent update calls on one identifier have completed
\* without an adapter failure, the search document of the identifier is the
\* projection of the primary store's final Item.
C35_IndexFollowsLastWrite ==
  \A id \in Ids :
    (BothUpdated(id) /\ id \in DOMAIN mongo)
      => /\ Str("oid", id) \in DOMAIN search
         /\ search[Str("oid", id)] = model_dump(mongo[id])

(* ------------------------------- C36 ---------------------------------- *)

\* Both coroutines have completed an update of id, and the two payloads set
\* fields of which none is common to both.
DisjointUpdatesDone(id) ==
  /\ \A p \in Procs :
       /\ pc[p] = "done" /\ args[p].op = "update" /\ args[p].id = id
       /\ ret[p].status = "ok"
       /\ DOMAIN args[p].data # {}
  /\ \A p, q \in Procs :
       p # q => DOMAIN args[p].data \cap DOMAIN args[q].data = {}

\* C36: when two update calls that set disjoint fields of one Item interleave,
\* the Item in the primary store after both have completed carries the changes
\* of both.
C36_ConcurrentUpdatesBothKept ==
  \A id \in Ids :
    (DisjointUpdatesDone(id) /\ id \in DOMAIN mongo)
      => \A p \in Procs :
           \A f \in DOMAIN args[p].data : mongo[id][f] = args[p].data[f]

(* ------------------------------- C37 ---------------------------------- *)

\* The primary-store read of get_by_id call p comes back for an identifier
\* that is not stored.
AbsentRead(p) ==
  /\ pc[p] = "get_mongo" /\ pc'[p] # "get_mongo"
  /\ args[p].id \notin DOMAIN mongo
  /\ calls'[p][Len(calls'[p])].raised # "DatabaseError"

\* The read of an absent identifier ends in NotFoundError with the cache as it
\* was and no cache.set made.
AbsentReadCachesNothing(p) ==
  AbsentRead(p)
    => /\ pc'[p] = "done" /\ ret'[p] = Raised("NotFoundError")
       /\ cache' = cache
       /\ \A i \in DOMAIN calls'[p] : calls'[p][i].method # "set"

\* A get_by_id of the identifier whose read was last answered NotFoundError,
\* the cache still holding no entry for it, goes to the primary store again.
NextReadAsksStore(p) ==
  (/\ pc[p] = "get_cache" /\ pc'[p] # "get_cache"
   /\ lastDone.op = "get_by_id_not_found" /\ lastDone.id = args[p].id
   /\ _cache_key(args[p].id) \notin LiveKeys)
    => pc'[p] = "get_mongo"

\* C37: get_by_id of an identifier with no cache entry and absent from the
\* primary store raises NotFoundError and writes nothing to the cache, and a
\* later get_by_id of the same identifier consults the primary store again.
C37_NoNegativeCaching ==
  [][\A p \in Procs : AbsentReadCachesNothing(p) /\ NextReadAsksStore(p)]_vars

\* C37 witness: the get_by_id that follows one answered NotFoundError has asked
\* the primary store in its turn and got NotFoundError as well.
C37_Witness ==
  \E p \in Procs :
    /\ lastDone.op = "get_by_id_not_found"
    /\ pc[p] = "done" /\ args[p].op = "get_by_id" /\ args[p].id = lastDone.id
    /\ ret[p] = Raised("NotFoundError")
    /\ Len(calls[p]) = 2
    /\ calls[p][1].method = "get" /\ calls[p][1].raised = ""
    /\ calls[p][2].repo = "mongo" /\ calls[p][2].raised = "NotFoundError"
    /\ _cache_key(args[p].id) \notin DOMAIN cache

(* ------------------------------- C38 ---------------------------------- *)

\* list_all call p comes back with its list.
ListReturned(p) ==
  pc[p] = "list_all" /\ pc'[p] = "done" /\ ret'[p].status = "ok"

\* The stored products that satisfy the filters which `supplied` counts as given.
Satisfying(a, supplied) ==
  { id \in DOMAIN mongo :
      /\ a.category \in supplied => mongo[id].category = a.category
      /\ a.is_active # NoFlag => mongo[id].is_active = a.is_active[1] }

\* items is a page of `matching`: only matching products, each once, newest
\* first, after `skip` of the newest ones, as many as limit allows.
IsPage(items, matching, skip, limit) ==
  LET listed == { items[k].id : k \in DOMAIN items }
      left == matching \ listed
      rest == IF Cardinality(matching) > skip
              THEN Cardinality(matching) - skip ELSE 0
  IN /\ listed \subseteq matching
     /\ \A k \in DOMAIN items : items[k] = mongo[items[k].id]
     /\ \A j, k \in DOMAIN items : j < k => /\ items[j].id # items[k].id
                                            /\ items[j].created_at >= items[k].created_at
     /\ Len(items) = (IF rest <= limit THEN rest ELSE limit)
     /\ \E skipped \in SUBSET left :
          /\ Cardinality(skipped) = Cardinality(matching) - rest
          /\ \A x \in skipped : \A k \in DOMAIN items :
               mongo[x].created_at >= items[k].created_at
          /\ \A x \in left \ skipped : \A k \in DOMAIN items :
               mongo[x].created_at <= items[k].created_at

\* list_all asks the primary store once and changes nothing.
ListReadsStoreOnly(p) ==
  (pc[p] = "list_all" /\ pc'[p] # "list_all")
    => /\ mongo' = mongo /\ cache' = cache /\ search' = search
       /\ Len(calls'[p]) = 1
       /\ calls'[p][1].repo = "mongo" /\ calls'[p][1].method = "list_all"

\* The strings that can be given as category.
CategoryArguments == { c.data.category : c \in ListCalls } \ {NULL}

\* list_all returns the page of the products that satisfy every filter given.
C38_ListAllAppliesEverySuppliedFilter ==
  [][\A p \in Procs :
       /\ ListReadsStoreOnly(p)
       /\ ListReturned(p)
            => IsPage(ret'[p].items,
                      Satisfying(args[p].data, CategoryArguments),
                      args[p].data.skip, args[p].data.limit)]_vars

\* C38: list_all(skip, limit, category, is_active) returns exactly the stored
\* Items that satisfy the filters given (an empty category string is no
\* filter), newest-created first, without the first skip of them and at most
\* limit of them; it reads the primary store only and changes no store.
C38_ListAllAppliesNonEmptyFilters ==
  [][\A p \in Procs :
       /\ ListReadsStoreOnly(p)
       /\ ListReturned(p)
            => IsPage(ret'[p].items,
                      Satisfying(args[p].data, CategoryArguments \ {""}),
                      args[p].data.skip, args[p].data.limit)]_vars

\* C38 witness: of two stored active products, list_all(skip=1, limit=1,
\* is_active=True) returned the older one, having skipped the newer one.
C38_Witness ==
  \E p \in Procs :
    /\ pc[p] = "done" /\ args[p].op = "list_all" /\ ret[p].status = "ok"
    /\ args[p].data.skip = 1 /\ args[p].data.limit = 1
    /\ args[p].data.category = NULL /\ args[p].data.is_active = << TRUE >>
    /\ Cardinality(DOMAIN mongo) = 2
    /\ \A id \in DOMAIN mongo : mongo[id].is_active
    /\ Len(ret[p].items) = 1
    /\ \E id \in DOMAIN mongo :
         mongo[id].created_at > ret[p].items[1].created_at

(* ------------------------- RedisRepository.set ------------------------- *)

\* The ttl arguments of a direct call of the adapter: omitted, zero, shorter
\* than, equal to and longer than the configured TTL, and negative.
SetTtls == {NoTTL, << 0 >>, << 100 >>, << DefaultTTL >>, << 500 >>, << -1 >>}

\* await cache.set(key, value, ttl) / await cache.set(key, value)
SetCalls ==
  { [op |-> "cache_set", id |-> i, data |-> t] : i \in 1..MaxItems, t \in SetTtls }

StartCacheSet(p) ==
  /\ pc[p] = "idle"
  /\ \E call \in SetCalls : Begin(p, call, "cache_set")

\* serialized = json.dumps(value, default=str)
\* await self._client.set(key, serialized, ex=ttl or self._ttl)
\* except Exception as e: raise CacheError(msg) from e
\* The request can fail on its way; the server rejects an expire time that is
\* not positive; otherwise the entry is stored with the expire time sent.
CacheSet(p) ==
  /\ pc[p] = "cache_set"
  /\ \/ /\ Log(p, "cache", "set", "CacheError")
        /\ Finish(p, Raised("CacheError"))
        /\ UNCHANGED cache
     \/ /\ ~ AcceptsExpiry(SetExpiry(args[p].data))
        /\ Log(p, "cache", "set", "CacheError")
        /\ Finish(p, Raised("CacheError"))
        /\ UNCHANGED cache
     \/ /\ AcceptsExpiry(SetExpiry(args[p].data))
        /\ cache' = RedisSet(_cache_key(args[p].id), model_dump(SeedProduct),
                             args[p].data)
        /\ Log(p, "cache", "set", "")
        /\ Finish(p, Ok(NoProduct))
  /\ UNCHANGED << mongo, search, now, ticks, nextId, opsLeft, bulk, indexExists, request_context,
                  indexedMore, args, local, lastDone, deleted >>

\* Direct calls of the adapter's set, overlapping, as the clock moves.
SetNext ==
  \/ \E p \in Procs : StartCacheSet(p)
  \/ \E p \in Procs : CacheSet(p)
  \/ \E p \in Procs : Return(p)
  \/ Tick

SetSpec == Init /\ [][SetNext]_vars

\* The set call of p returns normally at this step.
SetReturns(p) == pc[p] = "cache_set" /\ pc'[p] = "done" /\ ret'[p].status = "ok"

\* The lifetime the caller asked for: the ttl supplied, the configured TTL
\* when none was.
RequestedLifetime(p) ==
  IF args[p].data # NoTTL THEN args[p].data[1] ELSE DefaultTTL

\* C39: a set that returns has stored the entry with the lifetime ttl for
\* every ttl the caller supplied, and with the configured TTL only when ttl
\* was omitted; the entry has a finite lifetime.
C39_SetStoresSuppliedTtl ==
  [][\A p \in Procs :
       SetReturns(p) =>
         LET key == _cache_key(args[p].id) IN
           /\ key \in DOMAIN cache'
           /\ cache'[key].exp - now' = RequestedLifetime(p)
           /\ (cache'[key].exp - now' = DefaultTTL => args[p].data \in {NoTTL, << DefaultTTL >>})
           /\ cache'[key].exp - now' < 1000 * DefaultTTL]_vars

(* ----------------- RequestLoggingMiddleware.dispatch ------------------- *)

\* request.headers.get("X-Request-ID"): absent, or the value sent.
NoHeader == << >>

\* str(uuid.uuid4())[:8]: some eight characters.
GeneratedIds == {"1b9d6bcd"}

\* A context set by code around the middleware before the request arrives.
InitialCtx == [request_id |-> "initial", path |-> "-", method |-> "-"]

\* A context the handler sets for itself and leaves behind.
HandlerCtx == [request_id |-> "inner", path |-> "-", method |-> "-"]

\* Requests: path, method and X-Request-ID header; ambient is filled in with
\* the value request_context has where dispatch is called.
Requests ==
  { [path |-> u, method |-> m, header |-> h, ambient |-> NoContext] :
      u \in {"/", "/api/test"}, m \in {"GET", "POST"},
      h \in {NoHeader, << "abc-123" >>} }

\* The handler returns a response, raises an Exception, or is cancelled
\* (CancelledError is a BaseException, which `except Exception` lets pass).
HandlerOutcomes == {"", "Exception", "CancelledError"}

\* The response of a handler that returns: Response(content="OK"), before the
\* middleware adds its header.
HandlerResponse == [status_code |-> HTTP_200_OK, x_request_id |-> ""]

\* await middleware.dispatch(request, call_next)
StartDispatch(p) ==
  /\ pc[p] = "idle"
  /\ \E r \in Requests :
       Begin(p, [op |-> "dispatch", id |-> 0,
                 data |-> [r EXCEPT !.ambient = request_context[p]]], "dispatch")

\* request_id = request.headers.get("X-Request-ID", str(uuid.uuid4())[:8])
\* ctx = {"request_id": ..., "path": ..., "method": ...}
\* token = request_context.set(ctx); logger.info("Request started", ...)
DispatchSet(p) ==
  /\ pc[p] = "dispatch"
  /\ \E rid \in (IF args[p].data.header # NoHeader
                 THEN {args[p].data.header[1]} ELSE GeneratedIds) :
       /\ local' = [local EXCEPT ![p].token = request_context[p],
                                 ![p].request_id = rid]
       /\ request_context' =
            [request_context EXCEPT ![p] =
               << [request_id |-> rid, path |-> args[p].data.path,
                   method |-> args[p].data.method] >>]
  /\ Goto(p, "call_next")
  /\ UNCHANGED << mongo, cache, search, now, ticks, nextId, opsLeft, bulk,
                  indexExists, indexedMore, args, ret, calls, lastDone, deleted >>

\* response = await call_next(request): the handler runs to its end; run in
\* the same context it can leave request_context set to a value of its own.
CallNext(p) ==
  /\ pc[p] = "call_next"
  /\ \E out \in HandlerOutcomes :
       ret' = [ret EXCEPT ![p] =
                 IF out = "" THEN Ok(HandlerResponse)
                 ELSE Raised(out)]
  /\ \E left \in {request_context[p], NoContext, << HandlerCtx >>} :
       request_context' = [request_context EXCEPT ![p] = left]
  /\ Goto(p, "dispatch_finally")
  /\ UNCHANGED << mongo, cache, search, now, ticks, nextId, opsLeft, bulk,
                  indexExists, indexedMore, args, local, calls, lastDone, deleted >>

\* Mutant of DispatchFinally: the reset sits at the end of the try body, so
\* it is skipped when the handler raises.
DispatchFinally_NoResetOnRaise(p) ==
  /\ pc[p] = "dispatch_finally"
  /\ Finish(p, IF ret[p].status = "ok"
               THEN Ok([ret[p].value EXCEPT !.x_request_id = local[p].request_id])
               ELSE ret[p])
  /\ request_context' = IF ret[p].status = "ok"
                        THEN [request_context EXCEPT ![p] = local[p].token]
                        ELSE request_context
  /\ UNCHANGED << mongo, cache, search, now, ticks, nextId, opsLeft, bulk,
                  indexExists, indexedMore, args, local, calls, lastDone, deleted >>

\* logger.info("Request completed"); response.headers["X-Request-ID"] = request_id
\* except Exception: logger.exception("Request failed"); raise
\* else: return response
\* finally: request_context.reset(token)
DispatchFinally(p) ==
  /\ pc[p] = "dispatch_finally"
  /\ Finish(p, IF ret[p].status = "ok"
               THEN Ok([ret[p].value EXCEPT !.x_request_id = local[p].request_id])
               ELSE ret[p])
  /\ request_context' = [request_context EXCEPT ![p] = local[p].token]
  /\ UNCHANGED << mongo, cache, search, now, ticks, nextId, opsLeft, bulk,
                  indexExists, indexedMore, args, local, calls, lastDone, deleted >>

\* token = request_context.set(initial_ctx) ... request_context.reset(token)
\* in the code around a dispatch: the ambient value changes between requests.
AmbientSet(p) ==
  /\ pc[p] = "idle"
  /\ \E v \in {NoContext, << InitialCtx >>} :
       /\ v # request_context[p]
       /\ request_context' = [request_context EXCEPT ![p] = v]
  /\ UNCHANGED << mongo, cache, search, now, ticks, nextId, opsLeft, bulk,
                  indexExists, indexedMore, pc, args, local, ret, calls,
                  lastDone, deleted >>

\* Requests through the middleware, each in its own task, overlapping.
DispatchNext ==
  \/ \E p \in Procs : AmbientSet(p)
  \/ \E p \in Procs : StartDispatch(p)
  \/ \E p \in Procs : DispatchSet(p)
  \/ \E p \in Procs : CallNext(p)
  \/ \E p \in Procs : DispatchFinally(p)
  \/ \E p \in Procs : Return(p)

DispatchSpec == Init /\ [][DispatchNext]_vars

\* dispatch has finished for p: it returned a response or raised.
DispatchFinished(p) == args[p].op = "dispatch" /\ pc[p] = "done"

\* The handler of p's request is running.
InHandler(p) == args[p].op = "dispatch" /\ pc[p] = "call_next"

\* The context of the request of p: its id (the X-Request-ID header when the
\* request has one), its path and its method.
RequestCtx(p) ==
  [request_id |-> local[p].request_id, path |-> args[p].data.path,
   method |-> args[p].data.method]

ContextRestored ==
  \A p \in Procs :
    DispatchFinished(p) => request_context[p] = args[p].data.ambient

ContextCarriesRequest ==
  \A p \in Procs :
    InHandler(p) =>
      /\ request_context[p] = << RequestCtx(p) >>
      /\ args[p].data.header # NoHeader =>
           local[p].request_id = args[p].data.header[1]

\* C40: after dispatch finishes, with a response or with an exception,
\* request_context has the value it had before dispatch; while the handler
\* runs it holds the request's id, path and method.
C40_DispatchRestoresContext == ContextRestored /\ ContextCarriesRequest

\* A dispatch whose handler raised has finished in a context that was set
\* before the request arrived.
C40_Witness ==
  \E p \in Procs :
    /\ DispatchFinished(p)
    /\ ret[p].status = "raised"
    /\ args[p].data.ambient = << InitialCtx >>
    /\ request_context[p] = << InitialCtx >>

====
